---------------------------- MODULE Spec2Model ----------------------------
(***************************************************************************)
(* A model of go-zfs: the command executor (command.Run, zfsStdin,         *)
(* zfsStdout), the snapshot streaming pair (Snapshot.Send and              *)
(* ReceiveSnapshot joined by an io.Pipe) and the dataset property          *)
(* operations (CreateFilesystem, SetProperty, GetProperty) running         *)
(* against the zfs tool.                                                   *)
(*                                                                         *)
(* Strings are sequences of one-character strings, so that splitting,      *)
(* joining and formatting are computed and not assumed.                    *)
(***************************************************************************)
EXTENDS Naturals, Sequences, FiniteSets, TLC

VARIABLES
    \* ---- one invocation of the executor
    xApi,       \* "none", "Run", "zfsStdin" or "zfsStdout"
    xSink,      \* whether the caller supplied an output sink
    xPc,        \* "idle", "running", "returned"
    xChild,     \* "none", "running", "exit0", "exit1", "spawnfail", "killed"
    xCtx,       \* the caller's context: "live" or "cancelled"
    xCancelled, \* the context was cancelled while the child was running
    xEmitted,   \* every byte the child wrote to its stdout, in order
    xBuf,       \* the in-memory stdout buffer (sOut / stdout)
    xSinkData,  \* what reached the caller's sink
    xErrBuf,    \* the in-memory stderr buffer (sErr / stderr)
    xResult,    \* what the call returned
    \* ---- a Send / ReceiveSnapshot pair joined by an io.Pipe
    sendPc,     \* "running", "returned"
    sendErr,    \* error kind returned by Send
    recvPc,     \* "running", "returned"
    recvErr,    \* error kind returned by ReceiveSnapshot
    sCtx,       \* context of Send
    rCtx,       \* context of ReceiveSnapshot
    sChild,     \* the zfs send child
    rChild,     \* the zfs receive child
    sPlan,      \* the stream the send child has to write
    sEmitted,   \* every byte the send child wrote, in order
    sOsPipe,    \* bytes in the OS pipe from the send child to its copier
    sCopy,      \* the goroutine copying the send child's stdout to the sink
    sChunk,     \* the bytes that copier holds
    pWClosed,   \* the caller's pipe writer was closed
    pRClosed,   \* the caller's pipe reader was closed
    pDelivered, \* every byte read from the pipe by the receive side, in order
    rCopy,      \* the goroutine copying the input stream to the receive child
    rChunk,     \* the bytes that copier holds
    rOsPipe,    \* bytes in the OS pipe to the receive child
    rPwClosed,  \* the write end of that OS pipe was closed
    rDelivered, \* every byte written to the receive child's input, in order
    rConsumed,  \* every byte the receive child read, in order
    rSawEOF,    \* the receive child read end-of-input
    \* ---- the zfs tool's datasets and the last dataset operation
    zprops,     \* dataset name -> (property key -> value) for existing datasets
    zpass,      \* dataset name -> passphrase given at creation
    want,       \* dataset name -> (key -> the value the caller asked for and how)
    last,       \* the last operation: its inputs, the invocation built, the result
    zholds,     \* snapshot name -> its hold tags in the tool's order, and
                \* whether it is marked for deferred destruction
    zmnt,       \* filesystem name -> mounted, key loaded, the file in it; and
                \* what the caller wrote last and did to the key last
    zpools,     \* the pools: imported or exported, in the tool's order
    gone,       \* name -> whether the Destroy that succeeded on it last
                \* asked for deferred destruction
    \* ---- the older command.Run and the logging collaborator
    logger,     \* the Logger installed: "default" or one a caller has set
    llog,       \* every event given to Logger.Log, in order, and its receiver
    luuids,     \* the number of ids uuid.New has returned
    lrun        \* call -> its position, id, arguments, child and error

xvars == <<xApi, xSink, xPc, xChild, xCtx, xCancelled, xEmitted, xBuf,
           xSinkData, xErrBuf, xResult>>
svars == <<sendPc, sendErr, recvPc, recvErr, sCtx, rCtx, sChild, rChild,
           sPlan, sEmitted, sOsPipe, sCopy, sChunk, pWClosed, pRClosed, pDelivered,
           rCopy, rChunk, rOsPipe, rPwClosed, rDelivered, rConsumed, rSawEOF>>
zvars == <<zprops, zpass, want, last, zholds, zmnt, zpools, gone>>
lvars == <<logger, llog, luuids, lrun>>
vars == <<xvars, svars, zvars, lvars>>

---------------------------------------------------------------------------
(* Bounds *)

\* longest stdout text a child writes in the executor model
MaxOut == 3
\* longest stderr text a child writes
MaxErr == 1
\* longest stream the send child emits
MaxStream == 2
\* capacity of an OS pipe, in bytes
OsPipeCap == 1
\* calls of the older command.Run
MaxCalls == 2

---------------------------------------------------------------------------
(* Strings *)

NL == "\n"
TAB == "\t"
SP == " "

\* unicode.IsSpace, on the characters of the model
IsSpace(c) == c \in {SP, TAB, NL}

RECURSIVE Split(_, _)
\* strings.Split(s, sep) for a one-character separator: the pieces between
\* the separators; the empty string splits into one empty piece
Split(s, sep) ==
    IF \A i \in 1..Len(s) : s[i] # sep
    THEN <<s>>
    ELSE LET k == CHOOSE i \in 1..Len(s) :
                      /\ s[i] = sep
                      /\ \A j \in 1..(i - 1) : s[j] # sep
         IN <<SubSeq(s, 1, k - 1)>> \o Split(SubSeq(s, k + 1, Len(s)), sep)

RECURSIVE Fields(_)
\* strings.Fields(s): the maximal runs of non-space characters
Fields(s) ==
    IF s = <<>> THEN <<>>
    ELSE IF IsSpace(s[1]) THEN Fields(Tail(s))
    ELSE LET stops == {i \in 1..Len(s) : IsSpace(s[i])}
             k == IF stops = {} THEN Len(s) + 1
                  ELSE CHOOSE i \in stops : \A j \in stops : i <= j
         IN <<SubSeq(s, 1, k - 1)>> \o Fields(SubSeq(s, k, Len(s)))

RECURSIVE Join(_, _)
\* strings.Join(parts, sep)
Join(parts, sep) ==
    IF parts = <<>> THEN <<>>
    ELSE IF Len(parts) = 1 THEN parts[1]
    ELSE parts[1] \o sep \o Join(Tail(parts), sep)

DigitChars == <<"0", "1", "2", "3", "4", "5", "6", "7", "8", "9">>

RECURSIVE FormatUint(_)
\* strconv.FormatUint(n, 10)
FormatUint(n) ==
    IF n < 10 THEN <<DigitChars[n + 1]>>
    ELSE FormatUint(n \div 10) \o <<DigitChars[(n % 10) + 1]>>

IsDigit(c) == \E i \in 1..10 : DigitChars[i] = c
DigitVal(c) == (CHOOSE i \in 1..10 : DigitChars[i] = c) - 1

RECURSIVE UintOf(_)
UintOf(ds) == IF ds = <<>> THEN 0
              ELSE UintOf(SubSeq(ds, 1, Len(ds) - 1)) * 10 + DigitVal(ds[Len(ds)])

\* All sequences over S of length at most n
SeqUpTo(S, n) == UNION {[1..k -> S] : k \in 0..n}

---------------------------------------------------------------------------
(* The command executor *)

\* what a child may write to stdout, and to stderr
OutChars == {"a", SP, NL}
ErrChar == "e"

NoErr == [kind |-> "none", Stderr |-> <<>>]
NilTable == [isNil |-> TRUE, tab |-> <<>>]
NoResult == [rows |-> NilTable, err |-> NoErr]

\* the table built from the captured stdout: the lines but the last, each
\* split into fields
ParseTable(text) ==
    LET lines == Split(text, NL)
        kept == SubSeq(lines, 1, Len(lines) - 1)
    IN [isNil |-> FALSE, tab |-> [i \in 1..Len(kept) |-> Fields(kept[i])]]

\* whether the API takes the caller's context
TakesCtx(api) == api \in {"zfsStdin", "zfsStdout"}

\* the error of cmd.Run (command.Run), which knows no context
cmdRunErr(child) ==
    CASE child = "exit0" -> "none"
      [] child = "spawnfail" -> "spawn"
      [] OTHER -> "exit"

\* the error of libexec.Exec(ctx, cmd): the context's error once the context
\* is cancelled, else the error of starting or waiting for the child
libexecErr(ctx, child) ==
    IF ctx = "cancelled" /\ child # "spawnfail" THEN "cancelled"
    ELSE cmdRunErr(child)

\* the context as the executor hands it on to the process runner
ExecCtxIgnored(api, ctx) == "live"
ExecCtx(api, ctx) == IF TakesCtx(api) THEN ctx ELSE "live"

\* the error kind with which the invocation ends
ExecErr(api, ctx, child) ==
    IF TakesCtx(api) THEN libexecErr(ExecCtx(api, ctx), child)
    ELSE cmdRunErr(child)

\* a mutant of RunResult: the table is built although a sink was supplied
RunResultTableWithSink(api, sink, ctx, child, buf, errbuf) ==
    LET kind == ExecErr(api, ctx, child)
    IN IF kind # "none"
       THEN [rows |-> NilTable, err |-> [kind |-> kind, Stderr |-> errbuf]]
       ELSE [rows |-> ParseTable(buf), err |-> NoErr]

\* a mutant of RunResult: the rows parsed so far are returned with the error
RunResultPartialRows(api, sink, ctx, child, buf, errbuf) ==
    LET kind == ExecErr(api, ctx, child)
    IN IF kind # "none"
       THEN [rows |-> ParseTable(buf), err |-> [kind |-> kind, Stderr |-> errbuf]]
       ELSE IF sink THEN [rows |-> NilTable, err |-> NoErr]
       ELSE [rows |-> ParseTable(buf), err |-> NoErr]

\* what command.Run, zfsStdin and zfsStdout return once the child is over
RunResult(api, sink, ctx, child, buf, errbuf) ==
    LET kind == ExecErr(api, ctx, child)
    IN IF kind # "none"
       THEN [rows |-> NilTable, err |-> [kind |-> kind, Stderr |-> errbuf]]
       ELSE IF sink THEN [rows |-> NilTable, err |-> NoErr]
       ELSE [rows |-> ParseTable(buf), err |-> NoErr]

XIdle ==
    /\ xApi = "none" /\ xSink = FALSE /\ xPc = "idle" /\ xChild = "none"
    /\ xCtx = "live" /\ xCancelled = FALSE /\ xEmitted = <<>> /\ xBuf = <<>>
    /\ xSinkData = <<>> /\ xErrBuf = <<>> /\ xResult = NoResult

\* the call starts: the command is built with its stdout and stderr
XStart(api, sink) ==
    /\ xPc = "idle"
    /\ api = "zfsStdin" => ~sink
    /\ api = "zfsStdout" => sink
    /\ xApi' = api /\ xSink' = sink /\ xPc' = "running"
    /\ \E c \in {"running", "spawnfail"} : xChild' = c
    /\ UNCHANGED <<lvars, svars, zvars, xCtx, xCancelled, xEmitted, xBuf, xSinkData, xErrBuf, xResult>>

\* the child writes a byte to its stdout: to the sink when there is one, to
\* the buffer otherwise
XChildOut(c) ==
    /\ xPc = "running" /\ xChild = "running"
    /\ Len(xEmitted) < MaxOut
    /\ xEmitted' = Append(xEmitted, c)
    /\ IF xSink
       THEN xSinkData' = Append(xSinkData, c) /\ xBuf' = xBuf
       ELSE xBuf' = Append(xBuf, c) /\ xSinkData' = xSinkData
    /\ UNCHANGED <<lvars, svars, zvars, xApi, xSink, xPc, xChild, xCtx, xCancelled, xErrBuf, xResult>>

\* the child writes to its stderr
XChildErr ==
    /\ xPc = "running" /\ xChild = "running"
    /\ Len(xErrBuf) < MaxErr
    /\ xErrBuf' = Append(xErrBuf, ErrChar)
    /\ UNCHANGED <<lvars, svars, zvars, xApi, xSink, xPc, xChild, xCtx, xCancelled, xEmitted, xBuf,
                   xSinkData, xResult>>

\* the child exits by itself
XChildExit(code) ==
    /\ xPc = "running" /\ xChild = "running"
    /\ xChild' = code
    /\ UNCHANGED <<lvars, svars, zvars, xApi, xSink, xPc, xCtx, xCancelled, xEmitted, xBuf,
                   xSinkData, xErrBuf, xResult>>

\* the caller cancels the context of a call that takes one
XCancel ==
    /\ xPc = "running" /\ TakesCtx(xApi) /\ xCtx = "live"
    /\ xCtx' = "cancelled"
    /\ xCancelled' = (xChild = "running")
    /\ UNCHANGED <<lvars, svars, zvars, xApi, xSink, xPc, xChild, xEmitted, xBuf, xSinkData,
                   xErrBuf, xResult>>

\* the process runner terminates the child of a cancelled context
XTerminate ==
    /\ xPc = "running" /\ xChild = "running"
    /\ ExecCtx(xApi, xCtx) = "cancelled"
    /\ xChild' = "killed"
    /\ UNCHANGED <<lvars, svars, zvars, xApi, xSink, xPc, xCtx, xCancelled, xEmitted, xBuf,
                   xSinkData, xErrBuf, xResult>>

\* the child is over: the call returns
XReturn ==
    /\ xPc = "running" /\ xChild \notin {"none", "running"}
    /\ xResult' = RunResult(xApi, xSink, xCtx, xChild, xBuf, xErrBuf)
    /\ xPc' = "returned"
    /\ UNCHANGED <<lvars, svars, zvars, xApi, xSink, xChild, xCtx, xCancelled, xEmitted, xBuf,
                   xSinkData, xErrBuf>>

XNext ==
    \/ \E api \in {"Run", "zfsStdin", "zfsStdout"}, sink \in BOOLEAN : XStart(api, sink)
    \/ \E c \in OutChars : XChildOut(c)
    \/ XChildErr
    \/ \E code \in {"exit0", "exit1"} : XChildExit(code)
    \/ XCancel
    \/ XTerminate
    \/ XReturn


---------------------------------------------------------------------------
(* Send and ReceiveSnapshot joined by an io.Pipe *)

\* the bytes of a stream
Bytes == {0, 1}

SIdle ==
    /\ sendPc = "idle" /\ sendErr = "none" /\ recvPc = "idle" /\ recvErr = "none"
    /\ sCtx = "live" /\ rCtx = "live" /\ sChild = "none" /\ rChild = "none"
    /\ sPlan = <<>> /\ sEmitted = <<>> /\ sOsPipe = <<>>
    /\ sCopy = "none" /\ sChunk = <<>>
    /\ pWClosed = FALSE /\ pRClosed = FALSE /\ pDelivered = <<>>
    /\ rCopy = "none" /\ rChunk = <<>> /\ rOsPipe = <<>> /\ rPwClosed = FALSE
    /\ rDelivered = <<>> /\ rConsumed = <<>> /\ rSawEOF = FALSE

\* zfsStdout: cmd.Stdout is the caller's sink
zfsStdoutDropsSink == FALSE
zfsStdoutSink == TRUE

\* Send: defer output.Close()
SendCloseMissing(closed) == closed
SendClose(closed) == TRUE

\* ReceiveSnapshot: defer input.Close()
RecvCloseMissing(closed) == closed
RecvClose(closed) == TRUE

\* the error of zfsStdout: what libexec.Exec returns, where cmd.Wait reports
\* the exit status first and the copier's write error second
zfsStdoutErrIgnoresCopy(ctx, child, copy) == libexecErr(ctx, child)
zfsStdoutErr(ctx, child, copy) ==
    IF libexecErr(ctx, child) # "none" THEN libexecErr(ctx, child)
    ELSE IF copy = "failed" THEN "copy"
    ELSE "none"

\* the error of zfsStdin for the receive child; a write error of the stdin
\* copier (the child closed its input) is no error
zfsStdinErr(ctx, child) == libexecErr(ctx, child)

\* Send starts zfs send with its stdout on the sink
SendStart(plan) ==
    /\ sendPc = "idle"
    /\ sendPc' = "running"
    /\ \/ sChild' = "running" /\ sCopy' = "reading" /\ sPlan' = plan
       \/ sChild' = "spawnfail" /\ sCopy' = "done" /\ sPlan' = <<>>
    /\ UNCHANGED <<lvars, xvars, zvars, sendErr, recvPc, recvErr, sCtx, rCtx, rChild, sEmitted,
                   sOsPipe, sChunk, pWClosed, pRClosed, pDelivered, rCopy,
                   rChunk, rOsPipe, rPwClosed, rDelivered, rConsumed, rSawEOF>>

\* the send child writes the next byte of its stream to its stdout
SendChildEmit ==
    /\ sChild = "running" /\ Len(sEmitted) < Len(sPlan)
    /\ sCopy \in {"reading", "writing"}
    /\ Len(sOsPipe) < OsPipeCap
    /\ sEmitted' = Append(sEmitted, sPlan[Len(sEmitted) + 1])
    /\ sOsPipe' = Append(sOsPipe, sPlan[Len(sEmitted) + 1])
    /\ UNCHANGED <<lvars, xvars, zvars, sendPc, sendErr, recvPc, recvErr, sCtx, rCtx, sChild, rChild,
                   sPlan, sCopy, sChunk, pWClosed, pRClosed, pDelivered, rCopy,
                   rChunk, rOsPipe, rPwClosed, rDelivered, rConsumed, rSawEOF>>

\* the send child writes to a stdout whose reader is gone and dies of it
SendChildSigpipe ==
    /\ sChild = "running" /\ Len(sEmitted) < Len(sPlan)
    /\ sCopy \in {"done", "failed"}
    /\ sChild' = "killed"
    /\ UNCHANGED <<lvars, xvars, zvars, sendPc, sendErr, recvPc, recvErr, sCtx, rCtx, rChild, sPlan,
                   sEmitted, sOsPipe, sCopy, sChunk, pWClosed, pRClosed,
                   pDelivered, rCopy, rChunk, rOsPipe, rPwClosed, rDelivered,
                   rConsumed, rSawEOF>>

\* the send child has written its stream and exits zero
SendChildExit0 ==
    /\ sChild = "running" /\ sEmitted = sPlan
    /\ sChild' = "exit0"
    /\ UNCHANGED <<lvars, xvars, zvars, sendPc, sendErr, recvPc, recvErr, sCtx, rCtx, rChild, sPlan,
                   sEmitted, sOsPipe, sCopy, sChunk, pWClosed, pRClosed,
                   pDelivered, rCopy, rChunk, rOsPipe, rPwClosed, rDelivered,
                   rConsumed, rSawEOF>>

\* the send child fails
SendChildFail ==
    /\ sChild = "running"
    /\ sChild' = "exit1"
    /\ UNCHANGED <<lvars, xvars, zvars, sendPc, sendErr, recvPc, recvErr, sCtx, rCtx, rChild, sPlan,
                   sEmitted, sOsPipe, sCopy, sChunk, pWClosed, pRClosed,
                   pDelivered, rCopy, rChunk, rOsPipe, rPwClosed, rDelivered,
                   rConsumed, rSawEOF>>

\* the copier reads what the send child wrote and starts writing it to the
\* sink
SendCopyRead ==
    /\ sCopy = "reading" /\ sOsPipe # <<>>
    /\ sOsPipe' = <<>>
    /\ IF zfsStdoutSink
       THEN sChunk' = sOsPipe /\ sCopy' = "writing"
       ELSE sChunk' = <<>> /\ sCopy' = "reading"
    /\ UNCHANGED <<lvars, xvars, zvars, sendPc, sendErr, recvPc, recvErr, sCtx, rCtx, sChild, rChild,
                   sPlan, sEmitted, pWClosed, pRClosed, pDelivered, rCopy,
                   rChunk, rOsPipe, rPwClosed, rDelivered, rConsumed, rSawEOF>>

\* the copier reads the end of the send child's output
SendCopyEOF ==
    /\ sCopy = "reading" /\ sOsPipe = <<>> /\ sChild \notin {"none", "running"}
    /\ sCopy' = "done"
    /\ UNCHANGED <<lvars, xvars, zvars, sendPc, sendErr, recvPc, recvErr, sCtx, rCtx, sChild, rChild,
                   sPlan, sEmitted, sOsPipe, sChunk, pWClosed, pRClosed,
                   pDelivered, rCopy, rChunk, rOsPipe, rPwClosed, rDelivered,
                   rConsumed, rSawEOF>>

\* the copier's pending write to the pipe ends with an error: the pipe was
\* closed
SendCopyWriteFail ==
    /\ sCopy = "writing" /\ (pRClosed \/ pWClosed)
    /\ sCopy' = "failed" /\ sChunk' = <<>>
    /\ UNCHANGED <<lvars, xvars, zvars, sendPc, sendErr, recvPc, recvErr, sCtx, rCtx, sChild, rChild,
                   sPlan, sEmitted, sOsPipe, pWClosed, pRClosed, pDelivered,
                   rCopy, rChunk, rOsPipe, rPwClosed, rDelivered, rConsumed,
                   rSawEOF>>

\* the caller cancels the context of Send
SendCancel ==
    /\ sendPc = "running" /\ sCtx = "live"
    /\ sCtx' = "cancelled"
    /\ UNCHANGED <<lvars, xvars, zvars, sendPc, sendErr, recvPc, recvErr, rCtx, sChild, rChild, sPlan,
                   sEmitted, sOsPipe, sCopy, sChunk, pWClosed, pRClosed,
                   pDelivered, rCopy, rChunk, rOsPipe, rPwClosed, rDelivered,
                   rConsumed, rSawEOF>>

\* the process runner terminates the send child of a cancelled context
SendTerminate ==
    /\ sendPc = "running" /\ sCtx = "cancelled" /\ sChild = "running"
    /\ sChild' = "killed"
    /\ UNCHANGED <<lvars, xvars, zvars, sendPc, sendErr, recvPc, recvErr, sCtx, rCtx, rChild, sPlan,
                   sEmitted, sOsPipe, sCopy, sChunk, pWClosed, pRClosed,
                   pDelivered, rCopy, rChunk, rOsPipe, rPwClosed, rDelivered,
                   rConsumed, rSawEOF>>

\* the wait for the send command is over: the child is and its copier is
SendWaitOver(child, copy) ==
    child \notin {"none", "running"} /\ copy \in {"done", "failed"}

\* Send returns the error of zfsStdout, closing the sink on its way out
SendReturn ==
    /\ sendPc = "running" /\ SendWaitOver(sChild, sCopy)
    /\ sendErr' = zfsStdoutErr(sCtx, sChild, sCopy)
    /\ pWClosed' = SendClose(pWClosed)
    /\ sendPc' = "returned"
    /\ UNCHANGED <<lvars, xvars, zvars, recvPc, recvErr, sCtx, rCtx, sChild, rChild, sPlan, sEmitted,
                   sOsPipe, sCopy, sChunk, pRClosed, pDelivered, rCopy, rChunk,
                   rOsPipe, rPwClosed, rDelivered, rConsumed, rSawEOF>>

\* ReceiveSnapshot starts zfs receive with its stdin on the input stream
RecvStart ==
    /\ recvPc = "idle"
    /\ recvPc' = "running"
    /\ \/ rChild' = "running" /\ rCopy' = "reading" /\ rPwClosed' = FALSE
       \/ rChild' = "spawnfail" /\ rCopy' = "done" /\ rPwClosed' = TRUE
    /\ UNCHANGED <<lvars, xvars, zvars, sendPc, sendErr, recvErr, sCtx, rCtx, sChild, sPlan, sEmitted,
                   sOsPipe, sCopy, sChunk, pWClosed, pRClosed, pDelivered,
                   rChunk, rOsPipe, rDelivered, rConsumed, rSawEOF>>

\* the stdin copier reads from the pipe what the writer is writing: the
\* pending write completes
RecvCopyRead ==
    /\ rCopy = "reading" /\ sCopy = "writing" /\ ~pRClosed /\ ~pWClosed
    /\ rChunk' = sChunk /\ rCopy' = "writing"
    /\ pDelivered' = pDelivered \o sChunk
    /\ sChunk' = <<>> /\ sCopy' = "reading"
    /\ UNCHANGED <<lvars, xvars, zvars, sendPc, sendErr, recvPc, recvErr, sCtx, rCtx, sChild, rChild,
                   sPlan, sEmitted, sOsPipe, pWClosed, pRClosed, rOsPipe,
                   rPwClosed, rDelivered, rConsumed, rSawEOF>>

\* the stdin copier reads the end of the pipe and closes the child's input
RecvCopyEOF ==
    /\ rCopy = "reading" /\ pWClosed
    /\ rCopy' = "done" /\ rPwClosed' = TRUE
    /\ UNCHANGED <<lvars, xvars, zvars, sendPc, sendErr, recvPc, recvErr, sCtx, rCtx, sChild, rChild,
                   sPlan, sEmitted, sOsPipe, sCopy, sChunk, pWClosed, pRClosed,
                   pDelivered, rChunk, rOsPipe, rDelivered, rConsumed, rSawEOF>>

\* the stdin copier writes a byte to the receive child's input
RecvCopyWrite ==
    /\ rCopy = "writing" /\ rChild = "running"
    /\ Len(rOsPipe) < OsPipeCap
    /\ rOsPipe' = Append(rOsPipe, Head(rChunk))
    /\ rDelivered' = Append(rDelivered, Head(rChunk))
    /\ rChunk' = Tail(rChunk)
    /\ rCopy' = IF Tail(rChunk) = <<>> THEN "reading" ELSE "writing"
    /\ UNCHANGED <<lvars, xvars, zvars, sendPc, sendErr, recvPc, recvErr, sCtx, rCtx, sChild, rChild,
                   sPlan, sEmitted, sOsPipe, sCopy, sChunk, pWClosed, pRClosed,
                   pDelivered, rPwClosed, rConsumed, rSawEOF>>

\* the stdin copier writes to the input of a child that is gone and stops
RecvCopyWriteFail ==
    /\ rCopy = "writing" /\ rChild \notin {"none", "running"}
    /\ rCopy' = "done" /\ rChunk' = <<>> /\ rPwClosed' = TRUE
    /\ UNCHANGED <<lvars, xvars, zvars, sendPc, sendErr, recvPc, recvErr, sCtx, rCtx, sChild, rChild,
                   sPlan, sEmitted, sOsPipe, sCopy, sChunk, pWClosed, pRClosed,
                   pDelivered, rOsPipe, rDelivered, rConsumed, rSawEOF>>

\* the receive child reads a byte of its input
RecvChildRead ==
    /\ rChild = "running" /\ rOsPipe # <<>>
    /\ rConsumed' = Append(rConsumed, Head(rOsPipe))
    /\ rOsPipe' = Tail(rOsPipe)
    /\ UNCHANGED <<lvars, xvars, zvars, sendPc, sendErr, recvPc, recvErr, sCtx, rCtx, sChild, rChild,
                   sPlan, sEmitted, sOsPipe, sCopy, sChunk, pWClosed, pRClosed,
                   pDelivered, rCopy, rChunk, rPwClosed, rDelivered, rSawEOF>>

\* the receive child reads the end of its input
RecvChildEOF ==
    /\ rChild = "running" /\ rOsPipe = <<>> /\ rPwClosed /\ ~rSawEOF
    /\ rSawEOF' = TRUE
    /\ UNCHANGED <<lvars, xvars, zvars, sendPc, sendErr, recvPc, recvErr, sCtx, rCtx, sChild, rChild,
                   sPlan, sEmitted, sOsPipe, sCopy, sChunk, pWClosed, pRClosed,
                   pDelivered, rCopy, rChunk, rOsPipe, rPwClosed, rDelivered,
                   rConsumed>>

\* the receive child has read its whole input and exits zero
RecvChildExit0 ==
    /\ rChild = "running" /\ rSawEOF
    /\ rChild' = "exit0"
    /\ UNCHANGED <<lvars, xvars, zvars, sendPc, sendErr, recvPc, recvErr, sCtx, rCtx, sChild, sPlan,
                   sEmitted, sOsPipe, sCopy, sChunk, pWClosed, pRClosed,
                   pDelivered, rCopy, rChunk, rOsPipe, rPwClosed, rDelivered,
                   rConsumed, rSawEOF>>

\* the receive child fails
RecvChildFail ==
    /\ rChild = "running"
    /\ rChild' = "exit1"
    /\ UNCHANGED <<lvars, xvars, zvars, sendPc, sendErr, recvPc, recvErr, sCtx, rCtx, sChild, sPlan,
                   sEmitted, sOsPipe, sCopy, sChunk, pWClosed, pRClosed,
                   pDelivered, rCopy, rChunk, rOsPipe, rPwClosed, rDelivered,
                   rConsumed, rSawEOF>>

\* the caller cancels the context of ReceiveSnapshot
RecvCancel ==
    /\ recvPc = "running" /\ rCtx = "live"
    /\ rCtx' = "cancelled"
    /\ UNCHANGED <<lvars, xvars, zvars, sendPc, sendErr, recvPc, recvErr, sCtx, sChild, rChild, sPlan,
                   sEmitted, sOsPipe, sCopy, sChunk, pWClosed, pRClosed,
                   pDelivered, rCopy, rChunk, rOsPipe, rPwClosed, rDelivered,
                   rConsumed, rSawEOF>>

\* the process runner terminates the receive child of a cancelled context
RecvTerminate ==
    /\ recvPc = "running" /\ rCtx = "cancelled" /\ rChild = "running"
    /\ rChild' = "killed"
    /\ UNCHANGED <<lvars, xvars, zvars, sendPc, sendErr, recvPc, recvErr, sCtx, rCtx, sChild, sPlan,
                   sEmitted, sOsPipe, sCopy, sChunk, pWClosed, pRClosed,
                   pDelivered, rCopy, rChunk, rOsPipe, rPwClosed, rDelivered,
                   rConsumed, rSawEOF>>

\* ReceiveSnapshot returns: the error of zfsStdin, or after a receive that
\* went well what GetSnapshot returns; the input is closed on the way out
RecvReturn(fetch) ==
    /\ recvPc = "running" /\ rChild \notin {"none", "running"} /\ rCopy = "done"
    /\ recvErr' = IF zfsStdinErr(rCtx, rChild) # "none"
                  THEN zfsStdinErr(rCtx, rChild)
                  ELSE fetch
    /\ pRClosed' = RecvClose(pRClosed)
    /\ recvPc' = "returned"
    /\ UNCHANGED <<lvars, xvars, zvars, sendPc, sendErr, sCtx, rCtx, sChild, rChild, sPlan, sEmitted,
                   sOsPipe, sCopy, sChunk, pWClosed, pDelivered, rCopy, rChunk,
                   rOsPipe, rPwClosed, rDelivered, rConsumed, rSawEOF>>

SNext ==
    \/ \E plan \in SeqUpTo(Bytes, MaxStream) : SendStart(plan)
    \/ SendChildEmit
    \/ SendChildSigpipe
    \/ SendChildExit0
    \/ SendChildFail
    \/ SendCopyRead
    \/ SendCopyEOF
    \/ SendCopyWriteFail
    \/ SendCancel
    \/ SendTerminate
    \/ SendReturn
    \/ RecvStart
    \/ RecvCopyRead
    \/ RecvCopyEOF
    \/ RecvCopyWrite
    \/ RecvCopyWriteFail
    \/ RecvChildRead
    \/ RecvChildEOF
    \/ RecvChildExit0
    \/ RecvChildFail
    \/ RecvCancel
    \/ RecvTerminate
    \/ \E fetch \in {"none", "exit"} : RecvReturn(fetch)

---------------------------------------------------------------------------
(* The words of the command lines *)

S_create == <<"c", "r", "e", "a", "t", "e">>
S_set == <<"s", "e", "t">>
S_get == <<"g", "e", "t">>
S_list == <<"l", "i", "s", "t">>
S_snapshot == <<"s", "n", "a", "p", "s", "h", "o", "t">>
S_o == <<"-", "o">>
S_H == <<"-", "H">>
S_Hp == <<"-", "H", "p">>
S_t == <<"-", "t">>
S_d == <<"-", "d">>
S_password == <<"p", "a", "s", "s", "w", "o", "r", "d">>
S_encryption == <<"e", "n", "c", "r", "y", "p", "t", "i", "o", "n">>
S_keylocation == <<"k", "e", "y", "l", "o", "c", "a", "t", "i", "o", "n">>
S_keyformat == <<"k", "e", "y", "f", "o", "r", "m", "a", "t">>
S_on == <<"o", "n">>
S_prompt == <<"p", "r", "o", "m", "p", "t">>
S_passphrase == <<"p", "a", "s", "s", "p", "h", "r", "a", "s", "e">>
S_encryptionOn == <<"e", "n", "c", "r", "y", "p", "t", "i", "o", "n", "=", "o", "n">>
S_keylocationPrompt == <<"k", "e", "y", "l", "o", "c", "a", "t", "i", "o", "n", "=", "p", "r", "o", "m", "p", "t">>
S_keyformatPassphrase == <<"k", "e", "y", "f", "o", "r", "m", "a", "t", "=", "p", "a", "s", "s", "p", "h", "r", "a", "s", "e">>
S_local == <<"l", "o", "c", "a", "l">>
S_inherited == <<"i", "n", "h", "e", "r", "i", "t", "e", "d", " ", "f", "r", "o", "m", " ">>
S_off == <<"o", "f", "f">>
S_dash == <<"-">>
S_zero == <<"0">>
S_destroy == <<"d", "e", "s", "t", "r", "o", "y">>
S_r == <<"-", "r">>
S_R == <<"-", "R">>
S_f == <<"-", "f">>
S_hold == <<"h", "o", "l", "d">>
S_release == <<"r", "e", "l", "e", "a", "s", "e">>
S_holds == <<"h", "o", "l", "d", "s">>
S_name == <<"n", "a", "m", "e">>
S_send == <<"s", "e", "n", "d">>
S_i == <<"-", "i">>
S_p == <<"-", "p">>
S_w == <<"-", "w">>
S_mount == <<"m", "o", "u", "n", "t">>
S_umount == <<"u", "m", "o", "u", "n", "t">>
S_loadKey == <<"l", "o", "a", "d", "-", "k", "e", "y">>
S_unloadKey == <<"u", "n", "l", "o", "a", "d", "-", "k", "e", "y">>
S_import == <<"i", "m", "p", "o", "r", "t">>
S_export == <<"e", "x", "p", "o", "r", "t">>
datasetFilesystem == <<"f", "i", "l", "e", "s", "y", "s", "t", "e", "m">>
datasetSnapshot == <<"s", "n", "a", "p", "s", "h", "o", "t">>
dsPropList == <<<<"n", "a", "m", "e">>,
               <<"o", "r", "i", "g", "i", "n">>,
               <<"u", "s", "e", "d">>,
               <<"a", "v", "a", "i", "l", "a", "b", "l", "e">>,
               <<"m", "o", "u", "n", "t", "p", "o", "i", "n", "t">>,
               <<"c", "o", "m", "p", "r", "e", "s", "s", "i", "o", "n">>,
               <<"v", "o", "l", "s", "i", "z", "e">>,
               <<"q", "u", "o", "t", "a">>,
               <<"r", "e", "f", "e", "r", "e", "n", "c", "e", "d">>,
               <<"w", "r", "i", "t", "t", "e", "n">>,
               <<"l", "o", "g", "i", "c", "a", "l", "u", "s", "e", "d">>,
               <<"u", "s", "e", "d", "b", "y", "d", "a", "t", "a", "s", "e", "t">>>>
dsPropListOptions == Join(dsPropList, <<",">>)

---------------------------------------------------------------------------
(* The datasets of the model and the inputs of the calls *)

FsNames == {<<"f">>}
SnapNames == {<<"f", "@", "s">>}
\* the names a caller gives to Filesystem.Snapshot
SnapShortNames == {<<"s">>, <<"s", " ", "t">>}
\* every dataset name of the model, in the order in which zfs list prints
\* datasets: a filesystem, its snapshots, then its children
Namespace ==
    <<<<"f">>, <<"f", "@", "s">>, <<"f", "@", "s", " ", "t">>,
      <<"a">>, <<"a", "@", "1">>, <<"a", "@", "2">>,
      <<"a", "/", "a">>, <<"a", "/", "a", "@", "1">>,
      <<"a", "/", "a", "/", "a">>, <<"a", "/", "b">>,
      <<"b">>, <<"c">>, <<"c", "@", "1">>, <<"c", " ", "d">>, <<"c", "/", "e">>,
      <<"p">>, <<"p", "@", "1">>, <<"p", "/", "a">>, <<"q">>, <<"q", "/", "a">>>>
\* the pools of the model in the order in which zpool list prints them, and
\* the datasets a caller creates in them
PoolOrder == <<<<"p">>, <<"q">>>>
PoolNames == {PoolOrder[i] : i \in 1..Len(PoolOrder)}
PoolFsNames == {<<"p", "/", "a">>, <<"q", "/", "a">>}
PoolSnap == <<"p", "@", "1">>
\* the filesystems and snapshots of the listing scenario
TreeFsNames == {<<"a">>, <<"a", "/", "a">>, <<"a", "/", "b">>, <<"b">>}
TreeSnapNames == {<<"a", "@", "1">>, <<"a", "@", "2">>, <<"a", "/", "a", "@", "1">>}
PropKeys == {<<"t", ":", "1">>, <<"t", ":", "2">>}
Values == {<<"v">>, <<"v", " ", "w">>}
Passwords == {<<"x">>}
\* the passwords a password is compared against
OtherPasswords == {<<"x">>, <<"y">>}

ValidPropMap(m) ==
    \A k \in DOMAIN m : IF k = S_password THEN m[k] \in Passwords ELSE m[k] \in Values

\* the property maps a caller passes to CreateFilesystem
PropMaps ==
    UNION {{m \in [D -> Values \cup Passwords] : ValidPropMap(m)} :
               D \in SUBSET (PropKeys \cup {S_password})}

\* the orders in which a range over a Go map may visit its keys
IterOrders(m) ==
    {o \in [1..Cardinality(DOMAIN m) -> DOMAIN m] :
        \A i, j \in DOMAIN o : i # j => o[i] # o[j]}

\* a map with one entry set, and with one key removed
Put(m, k, v) == [x \in DOMAIN m \cup {k} |-> IF x = k THEN v ELSE m[x]]
Delete(m, k) == [x \in DOMAIN m \ {k} |-> m[x]]

Contains(s, c) == \E i \in 1..Len(s) : s[i] = c
IsSnapshotName(n) == Contains(n, "@")

\* the part of a name before its first c
Before(s, c) ==
    LET at == {i \in 1..Len(s) : s[i] = c}
    IN IF at = {} THEN s
       ELSE SubSeq(s, 1, (CHOOSE i \in at : \A j \in at : i <= j) - 1)

\* the number of namespace levels of a name: one per "/" and one for "@"
Level(n) == Cardinality({i \in 1..Len(n) : n[i] \in {"/", "@"}})

\* the name one level up: the filesystem of a snapshot, the parent of a
\* filesystem; empty for a name of the first level
ParentOf(n) ==
    LET at == {i \in 1..Len(n) : n[i] \in {"/", "@"}}
    IN IF at = {} THEN <<>>
       ELSE SubSeq(n, 1, (CHOOSE i \in at : \A j \in at : j <= i) - 1)

\* n is root or lies under root, at most depth levels deeper
\* (root is empty for the whole namespace)
Within(n, root, depth) ==
    IF root = <<>> THEN Level(n) <= depth
    ELSE /\ Len(n) >= Len(root)
         /\ SubSeq(n, 1, Len(root)) = root
         /\ Len(n) > Len(root) => n[Len(root) + 1] \in {"/", "@"}
         /\ Level(n) - Level(root) <= depth

\* key=value cut at the first "="
CutEq(kv) ==
    LET at == {i \in 1..Len(kv) : kv[i] = "="}
        k == IF at = {} THEN 0 ELSE CHOOSE i \in at : \A j \in at : i <= j
    IN [found |-> at # {},
        key |-> SubSeq(kv, 1, k - 1),
        val |-> SubSeq(kv, k + 1, Len(kv))]

---------------------------------------------------------------------------
(* The zfs tool: what a command line does to the datasets and prints *)

ToolFail(props, pass) ==
    [code |-> 1, out |-> <<>>, err |-> <<ErrChar>>, props |-> props, pass |-> pass]
ToolOk(out, props, pass) ==
    [code |-> 0, out |-> out, err |-> <<>>, props |-> props, pass |-> pass]

NativeKeys == {S_encryption, S_keylocation, S_keyformat}
IsUserKey(k) == Contains(k, ":")

RECURSIVE OptsWellFormed(_)
\* the options of zfs create: pairs of -o and key=value with a known key
OptsWellFormed(opts) ==
    IF opts = <<>> THEN TRUE
    ELSE /\ Len(opts) >= 2
         /\ opts[1] = S_o
         /\ CutEq(opts[2]).found
         /\ IsUserKey(CutEq(opts[2]).key) \/ CutEq(opts[2]).key \in NativeKeys
         /\ OptsWellFormed(SubSeq(opts, 3, Len(opts)))

RECURSIVE OptsMap(_, _)
\* the properties the options set, a later option winning
OptsMap(opts, m) ==
    IF opts = <<>> THEN m
    ELSE OptsMap(SubSeq(opts, 3, Len(opts)),
                 Put(m, CutEq(opts[2]).key, CutEq(opts[2]).val))

WantsPassphrase(m) ==
    /\ S_encryption \in DOMAIN m /\ m[S_encryption] = S_on
    /\ S_keyformat \in DOMAIN m /\ m[S_keyformat] = S_passphrase
    /\ S_keylocation \in DOMAIN m /\ m[S_keylocation] = S_prompt

\* zfs create [-o key=value]... name; a passphrase is read twice from stdin
ZfsCreate(args, stdin, props, pass) ==
    LET n == Len(args)
        name == args[n]
        opts == SubSeq(args, 2, n - 1)
    IN IF n < 2 \/ name \in DOMAIN props \/ IsSnapshotName(name)
          \/ (ParentOf(name) # <<>> /\ ParentOf(name) \notin DOMAIN props)
          \/ ~OptsWellFormed(opts)
       THEN ToolFail(props, pass)
       ELSE LET m == OptsMap(opts, <<>>)
                lines == IF stdin.isNil THEN <<>> ELSE Split(stdin.data, NL)
            IN IF WantsPassphrase(m)
               THEN IF Len(lines) = 2 /\ lines[1] = lines[2] /\ lines[1] # <<>>
                    THEN ToolOk(<<>>, Put(props, name, m), Put(pass, name, lines[1]))
                    ELSE ToolFail(props, pass)
               ELSE ToolOk(<<>>, Put(props, name, m), pass)

\* zfs set key=value name
ZfsSet(args, props, pass) ==
    IF Len(args) # 3 THEN ToolFail(props, pass)
    ELSE LET kv == CutEq(args[2])
             name == args[3]
         IN IF ~kv.found \/ ~IsUserKey(kv.key) \/ name \notin DOMAIN props
            THEN ToolFail(props, pass)
            ELSE ToolOk(<<>>, Put(props, name, Put(props[name], kv.key, kv.val)), pass)

\* zfs get -H key name: name, key, value and source separated by tabs; an
\* unset property prints "-" for both; a snapshot inherits from its filesystem
ZfsGet(args, props, pass) ==
    IF Len(args) # 4 \/ args[2] # S_H THEN ToolFail(props, pass)
    ELSE LET key == args[3]
             name == args[4]
             parent == Before(name, "@")
         IN IF name \notin DOMAIN props THEN ToolFail(props, pass)
            ELSE LET cell ==
                         IF key \in DOMAIN props[name]
                         THEN <<props[name][key], S_local>>
                         ELSE IF IsSnapshotName(name) /\ IsUserKey(key)
                                 /\ key \in DOMAIN props[parent]
                         THEN <<props[parent][key], S_inherited \o parent>>
                         ELSE <<S_dash, S_dash>>
                 IN ToolOk(Join(<<name, key>> \o cell, <<TAB>>) \o <<NL>>, props, pass)

\* zfs snapshot filesystem@name
ZfsSnapshot(args, props, pass) ==
    IF Len(args) # 2 THEN ToolFail(props, pass)
    ELSE LET name == args[2]
         IN IF ~IsSnapshotName(name) \/ name \in DOMAIN props
               \/ Before(name, "@") \notin DOMAIN props
            THEN ToolFail(props, pass)
            ELSE ToolOk(<<>>, Put(props, name, <<>>), pass)

\* one column of a dataset's row in zfs list -Hp
ListCell(col, name, props) ==
    CASE col = dsPropList[1] -> name
      [] col = dsPropList[5] ->
             IF IsSnapshotName(name) THEN S_dash ELSE <<"/">> \o name
      [] col = dsPropList[6] -> IF IsSnapshotName(name) THEN S_dash ELSE S_off
      [] col = dsPropList[2] -> S_dash
      [] col \in {dsPropList[7], dsPropList[8]} ->
             IF IsSnapshotName(name) THEN S_dash ELSE S_zero
      [] OTHER -> S_zero

ListRow(cols, name, props) ==
    Join([i \in 1..Len(cols) |-> ListCell(cols[i], name, props)], <<TAB>>) \o <<NL>>

RECURSIVE ListText(_, _, _)
ListText(names, cols, props) ==
    IF names = <<>> THEN <<>>
    ELSE ListRow(cols, names[1], props) \o ListText(Tail(names), cols, props)

\* the names a listing selects, in the tool's order
RECURSIVE Listed(_, _, _, _, _)
Listed(names, type, root, depth, props) ==
    IF names = <<>> THEN <<>>
    ELSE (IF /\ names[1] \in DOMAIN props
             /\ (type = datasetSnapshot) = IsSnapshotName(names[1])
             /\ Within(names[1], root, depth)
          THEN <<names[1]>> ELSE <<>>)
         \o Listed(Tail(names), type, root, depth, props)

\* zfs list -Hp -t type -o columns -d depth [name]: one row for every
\* dataset of that type that is the named one or lies at most depth levels
\* under it (under the first level when no name is given)
ZfsList(args, props, pass) ==
    IF Len(args) \notin {8, 9} \/ args[2] # S_Hp \/ args[3] # S_t \/ args[5] # S_o
       \/ args[7] # S_d \/ args[8] = <<>>
       \/ (\E i \in 1..Len(args[8]) : ~IsDigit(args[8][i]))
       \/ args[4] \notin {datasetFilesystem, datasetSnapshot}
       \/ (Len(args) = 9 /\ args[9] \notin DOMAIN props)
    THEN ToolFail(props, pass)
    ELSE ToolOk(ListText(Listed(Namespace, args[4],
                                IF Len(args) = 9 THEN args[9] ELSE <<>>,
                                UintOf(args[8]), props),
                         Split(args[6], ","), props),
                props, pass)

\* the outcome of a command on snapshots and their holds
HeldFail(props, holds) ==
    [code |-> 1, out |-> <<>>, err |-> <<ErrChar>>, props |-> props, holds |-> holds]
HeldOk(out, props, holds) ==
    [code |-> 0, out |-> out, err |-> <<>>, props |-> props, holds |-> holds]

\* the hold tags of a snapshot in the tool's order, and whether the snapshot
\* is marked for deferred destruction
HoldTags(holds, n) == IF n \in DOMAIN holds THEN holds[n].tags ELSE <<>>
Deferred(holds, n) == n \in DOMAIN holds /\ holds[n].defer

\* n is a snapshot or a descendant of the filesystem called name
Under(n, name) ==
    /\ Len(n) > Len(name)
    /\ SubSeq(n, 1, Len(name)) = name
    /\ n[Len(name) + 1] \in {"/", "@"}

\* what zfs destroy name is about to destroy: the dataset; with -r or -R
\* also what lies under a filesystem, and the snapshots of the same name in
\* the filesystems under a snapshot's filesystem
DestroyTargets(name, recursive, props) ==
    IF ~recursive THEN {name}
    ELSE IF IsSnapshotName(name)
    THEN {n \in DOMAIN props :
              /\ IsSnapshotName(n)
              /\ SubSeq(n, Len(ParentOf(n)) + 1, Len(n))
                 = SubSeq(name, Len(ParentOf(name)) + 1, Len(name))
              /\ ParentOf(n) = ParentOf(name) \/ Under(ParentOf(n), ParentOf(name))}
    ELSE {name} \cup {n \in DOMAIN props : Under(n, name)}

\* the datasets and holds once the targets are destroyed; with defer a held
\* snapshot stays and is marked
DestroyEffect(targets, defer, props, holds) ==
    LET kept == IF defer THEN {n \in targets : HoldTags(holds, n) # <<>>} ELSE {}
        left == (DOMAIN props \ targets) \cup kept
    IN HeldOk(<<>>,
              [n \in left |-> props[n]],
              [n \in (DOMAIN holds \cap left) |->
                   IF n \in kept THEN [holds[n] EXCEPT !.defer = TRUE] ELSE holds[n]])

\* zfs destroy [-r] [-R] [-d] [-f] name: fails for a dataset that is not
\* there, for a filesystem with children or snapshots unless recursive, and
\* for a held snapshot unless deferred; a failed destroy changes nothing
ZfsDestroy(args, props, holds) ==
    LET n == Len(args)
        name == args[n]
        flags == {args[i] : i \in 2..(n - 1)}
        targets == DestroyTargets(name, S_r \in flags \/ S_R \in flags, props)
        held == {t \in targets : HoldTags(holds, t) # <<>>}
    IN IF n < 2 \/ ~(flags \subseteq {S_r, S_R, S_d, S_f}) \/ name \notin DOMAIN props
       THEN HeldFail(props, holds)
       ELSE IF ~IsSnapshotName(name) /\ (\E x \in DOMAIN props : Under(x, name))
               /\ ~(S_r \in flags \/ S_R \in flags)
       THEN HeldFail(props, holds)
       ELSE IF held # {} /\ (~IsSnapshotName(name) \/ S_d \notin flags)
       THEN HeldFail(props, holds)
       ELSE DestroyEffect(targets, IsSnapshotName(name) /\ S_d \in flags, props, holds)

\* zfs hold tag snapshot: a tag is held once on a snapshot
ZfsHold(args, props, holds) ==
    IF Len(args) # 3 THEN HeldFail(props, holds)
    ELSE IF args[3] \notin DOMAIN props \/ ~IsSnapshotName(args[3]) \/ args[2] = <<>>
            \/ (\E i \in 1..Len(HoldTags(holds, args[3])) :
                    HoldTags(holds, args[3])[i] = args[2])
    THEN HeldFail(props, holds)
    ELSE HeldOk(<<>>, props,
                Put(holds, args[3],
                    [tags |-> Append(HoldTags(holds, args[3]), args[2]),
                     defer |-> Deferred(holds, args[3])]))

\* zfs release tag snapshot: the release of its last hold destroys a
\* snapshot marked for deferred destruction
ZfsRelease(args, props, holds) ==
    IF Len(args) # 3 THEN HeldFail(props, holds)
    ELSE IF args[3] \notin DOMAIN props
            \/ ~(\E i \in 1..Len(HoldTags(holds, args[3])) :
                     HoldTags(holds, args[3])[i] = args[2])
    THEN HeldFail(props, holds)
    ELSE IF Len(HoldTags(holds, args[3])) = 1
    THEN (IF Deferred(holds, args[3])
          THEN HeldOk(<<>>, Delete(props, args[3]), Delete(holds, args[3]))
          ELSE HeldOk(<<>>, props, Delete(holds, args[3])))
    ELSE HeldOk(<<>>, props,
                [holds EXCEPT ![args[3]].tags =
                     SelectSeq(holds[args[3]].tags, LAMBDA t : t # args[2])])

\* the time of a hold as zfs holds prints it
HoldTime == <<"M", "o", "n", " ", "1">>

\* zfs holds -H snapshot: name, tag and time of every hold, separated by tabs
ZfsHolds(args, props, holds) ==
    IF Len(args) # 3 \/ args[2] # S_H \/ args[3] \notin DOMAIN props
       \/ ~IsSnapshotName(args[3])
    THEN HeldFail(props, holds)
    ELSE HeldOk(Join([i \in 1..Len(HoldTags(holds, args[3])) |->
                          Join(<<args[3], HoldTags(holds, args[3])[i], HoldTime>>,
                               <<TAB>>) \o <<NL>>],
                     <<>>),
                props, holds)

\* the zfs tool run on a command line that destroys, holds or releases
ZfsRunHeld(args, props, holds) ==
    CASE args[1] = S_destroy -> ZfsDestroy(args, props, holds)
      [] args[1] = S_hold -> ZfsHold(args, props, holds)
      [] args[1] = S_release -> ZfsRelease(args, props, holds)
      [] args[1] = S_holds -> ZfsHolds(args, props, holds)
      [] OTHER -> HeldFail(props, holds)

\* the pool of a dataset: the first segment of its name
PoolOf(n) == Before(Before(n, "/"), "@")

\* a map cut down to the datasets of a pool, and to those of the other pools
InPool(m, pool) == [n \in {x \in DOMAIN m : PoolOf(x) = pool} |-> m[n]]
OffPool(m, pool) == [n \in {x \in DOMAIN m : PoolOf(x) # pool} |-> m[n]]
Merge(m, k) == [n \in DOMAIN m \cup DOMAIN k |-> IF n \in DOMAIN k THEN k[n] ELSE m[n]]

\* an exported pool that holds its root filesystem only
ExportedEmpty(pool) ==
    [imported |-> FALSE, props |-> [n \in {pool} |-> <<>>], pass |-> <<>>,
     holds |-> <<>>]

\* the outcome of a zpool command
PoolFail(pools, props, pass, holds) ==
    [code |-> 1, out |-> <<>>, err |-> <<ErrChar>>, pools |-> pools,
     props |-> props, pass |-> pass, holds |-> holds]
PoolOk(out, pools, props, pass, holds) ==
    [code |-> 0, out |-> out, err |-> <<>>, pools |-> pools,
     props |-> props, pass |-> pass, holds |-> holds]

\* the imported pools in the order of zpool list
ImportedPools(pools) ==
    SelectSeq(PoolOrder, LAMBDA n : n \in DOMAIN pools /\ pools[n].imported)

\* zpool list -H -o name [pool]: one imported pool per line
ZpoolList(args, pools, props, pass, holds) ==
    IF Len(args) \notin {4, 5} \/ SubSeq(args, 2, 4) # <<S_H, S_o, S_name>>
    THEN PoolFail(pools, props, pass, holds)
    ELSE IF Len(args) = 5
    THEN (IF args[5] \in DOMAIN pools /\ pools[args[5]].imported
          THEN PoolOk(args[5] \o <<NL>>, pools, props, pass, holds)
          ELSE PoolFail(pools, props, pass, holds))
    ELSE PoolOk(Join([i \in 1..Len(ImportedPools(pools)) |->
                          ImportedPools(pools)[i] \o <<NL>>], <<>>),
                pools, props, pass, holds)

\* zpool export pool: the datasets of the pool leave the namespace and stay
\* in the pool
ZpoolExport(args, pools, props, pass, holds) ==
    IF Len(args) # 2 \/ args[2] \notin DOMAIN pools
    THEN PoolFail(pools, props, pass, holds)
    ELSE IF ~pools[args[2]].imported THEN PoolFail(pools, props, pass, holds)
    ELSE PoolOk(<<>>,
                [pools EXCEPT ![args[2]] =
                     [imported |-> FALSE, props |-> InPool(props, args[2]),
                      pass |-> InPool(pass, args[2]),
                      holds |-> InPool(holds, args[2])]],
                OffPool(props, args[2]), OffPool(pass, args[2]),
                OffPool(holds, args[2]))

\* zpool import pool: the datasets of the pool are back in the namespace
ZpoolImport(args, pools, props, pass, holds) ==
    IF Len(args) # 2 \/ args[2] \notin DOMAIN pools
    THEN PoolFail(pools, props, pass, holds)
    ELSE IF pools[args[2]].imported THEN PoolFail(pools, props, pass, holds)
    ELSE PoolOk(<<>>,
                [pools EXCEPT ![args[2]] =
                     [imported |-> TRUE, props |-> <<>>, pass |-> <<>>,
                      holds |-> <<>>]],
                Merge(props, pools[args[2]].props),
                Merge(pass, pools[args[2]].pass),
                Merge(holds, pools[args[2]].holds))

\* the zpool tool run on a command line
ZpoolRun(args, pools, props, pass, holds) ==
    CASE args[1] = S_list -> ZpoolList(args, pools, props, pass, holds)
      [] args[1] = S_export -> ZpoolExport(args, pools, props, pass, holds)
      [] args[1] = S_import -> ZpoolImport(args, pools, props, pass, holds)
      [] OTHER -> PoolFail(pools, props, pass, holds)

\* a filesystem as zfs create leaves it: mounted, its key loaded, no file
Created == [mounted |-> TRUE, key |-> TRUE, data |-> <<>>,
            written |-> <<>>, keyAsked |-> TRUE]
MntOf(mnt, name) == IF name \in DOMAIN mnt THEN mnt[name] ELSE Created

\* the outcome of a command on mounts and keys
MntFail(mnt) == [code |-> 1, out |-> <<>>, err |-> <<ErrChar>>, mnt |-> mnt]
MntOk(mnt) == [code |-> 0, out |-> <<>>, err |-> <<>>, mnt |-> mnt]

\* zfs mount filesystem: fails for a mounted one and for an encrypted one
\* whose key is not loaded
ZfsMount(args, props, pass, mnt) ==
    IF Len(args) # 2 \/ args[2] \notin DOMAIN props \/ IsSnapshotName(args[2])
    THEN MntFail(mnt)
    ELSE IF MntOf(mnt, args[2]).mounted
            \/ (args[2] \in DOMAIN pass /\ ~MntOf(mnt, args[2]).key)
    THEN MntFail(mnt)
    ELSE MntOk(Put(mnt, args[2], [MntOf(mnt, args[2]) EXCEPT !.mounted = TRUE]))

\* zfs umount filesystem: fails for one that is not mounted
ZfsUmount(args, props, pass, mnt) ==
    IF Len(args) # 2 \/ args[2] \notin DOMAIN props \/ IsSnapshotName(args[2])
    THEN MntFail(mnt)
    ELSE IF ~MntOf(mnt, args[2]).mounted THEN MntFail(mnt)
    ELSE MntOk(Put(mnt, args[2], [MntOf(mnt, args[2]) EXCEPT !.mounted = FALSE]))

\* zfs load-key filesystem: the passphrase is the first line of stdin; fails
\* for a loaded key and for a wrong passphrase
ZfsLoadKey(args, stdin, props, pass, mnt) ==
    IF Len(args) # 2 \/ args[2] \notin DOMAIN props \/ args[2] \notin DOMAIN pass
    THEN MntFail(mnt)
    ELSE IF MntOf(mnt, args[2]).key \/ stdin.isNil
            \/ Split(stdin.data, NL)[1] # pass[args[2]]
    THEN MntFail(mnt)
    ELSE MntOk(Put(mnt, args[2], [MntOf(mnt, args[2]) EXCEPT !.key = TRUE]))

\* zfs unload-key filesystem: fails for a key that is not loaded and for a
\* mounted filesystem
ZfsUnloadKey(args, props, pass, mnt) ==
    IF Len(args) # 2 \/ args[2] \notin DOMAIN props \/ args[2] \notin DOMAIN pass
    THEN MntFail(mnt)
    ELSE IF ~MntOf(mnt, args[2]).key \/ MntOf(mnt, args[2]).mounted
    THEN MntFail(mnt)
    ELSE MntOk(Put(mnt, args[2], [MntOf(mnt, args[2]) EXCEPT !.key = FALSE]))

\* the zfs tool run on a command line that mounts or handles a key
ZfsRunMnt(args, stdin, props, pass, mnt) ==
    CASE args[1] = S_mount -> ZfsMount(args, props, pass, mnt)
      [] args[1] = S_umount -> ZfsUmount(args, props, pass, mnt)
      [] args[1] = S_loadKey -> ZfsLoadKey(args, stdin, props, pass, mnt)
      [] args[1] = S_unloadKey -> ZfsUnloadKey(args, props, pass, mnt)
      [] OTHER -> MntFail(mnt)

\* the place of a dataset in the order of zfs list, in which the snapshots
\* of a filesystem stand in the order of their creation
PlaceOf(n) == CHOOSE i \in 1..Len(Namespace) : Namespace[i] = n

RECURSIVE SendOpts(_, _)
\* the options of zfs send: -i snapshot, -p, -w, in any order
SendOpts(opts, acc) ==
    IF opts = <<>> THEN acc
    ELSE IF opts[1] = S_i /\ Len(opts) >= 2
    THEN SendOpts(SubSeq(opts, 3, Len(opts)), [acc EXCEPT !.base = opts[2], !.i = TRUE])
    ELSE IF opts[1] = S_p THEN SendOpts(Tail(opts), [acc EXCEPT !.p = TRUE])
    ELSE IF opts[1] = S_w THEN SendOpts(Tail(opts), [acc EXCEPT !.w = TRUE])
    ELSE [acc EXCEPT !.ok = FALSE]

\* the stream of a snapshot: what is sent, from where on, with the
\* properties or not, raw or not
StreamOf(name, o) ==
    name \o (IF o.i THEN <<"<">> \o o.base ELSE <<>>)
    \o (IF o.p THEN <<"p">> ELSE <<>>) \o (IF o.w THEN <<"w">> ELSE <<>>)

SendParsed(name, o, props) ==
    IF ~o.ok \/ name \notin DOMAIN props \/ ~IsSnapshotName(name)
    THEN [code |-> 1, out |-> <<>>, err |-> <<ErrChar>>]
    ELSE IF o.i /\ (\/ o.base \notin DOMAIN props
                    \/ ~IsSnapshotName(o.base)
                    \/ ParentOf(o.base) # ParentOf(name)
                    \/ PlaceOf(o.base) >= PlaceOf(name))
    THEN [code |-> 1, out |-> <<>>, err |-> <<ErrChar>>]
    ELSE [code |-> 0, out |-> StreamOf(name, o), err |-> <<>>]

\* zfs send [-i snapshot] [-p] [-w] snapshot: the stream on stdout; the
\* base is an earlier snapshot of the same filesystem
ZfsSend(args, props) ==
    IF Len(args) < 2 THEN [code |-> 1, out |-> <<>>, err |-> <<ErrChar>>]
    ELSE SendParsed(args[Len(args)],
                    SendOpts(SubSeq(args, 2, Len(args) - 1),
                             [ok |-> TRUE, i |-> FALSE, base |-> <<>>,
                              p |-> FALSE, w |-> FALSE]),
                    props)

\* the zfs tool run on a command line
ZfsRun(args, stdin, props, pass) ==
    CASE args[1] = S_create -> ZfsCreate(args, stdin, props, pass)
      [] args[1] = S_set -> ZfsSet(args, props, pass)
      [] args[1] = S_get -> ZfsGet(args, props, pass)
      [] args[1] = S_list -> ZfsList(args, props, pass)
      [] args[1] = S_snapshot -> ZfsSnapshot(args, props, pass)
      [] OTHER -> ToolFail(props, pass)

---------------------------------------------------------------------------
(* The dataset operations *)

NilStdin == [isNil |-> TRUE, data |-> <<>>]
Stdin(data) == [isNil |-> FALSE, data |-> data]

\* setString: the value, "-" standing for the empty string
setString(value) == IF value # S_dash THEN value ELSE <<>>

\* the digits of the largest uint64, 2^64 - 1
MaxUint64Digits ==
    <<"1", "8", "4", "4", "6", "7", "4", "4", "0", "7",
      "3", "7", "0", "9", "5", "5", "1", "6", "1", "5">>

RECURSIVE StripZeros(_)
StripZeros(ds) ==
    IF ds # <<>> /\ ds[1] = "0" THEN StripZeros(Tail(ds)) ELSE ds

\* the number written with the digits a is greater than the one written
\* with the digits b, neither with leading zeros
DigitsGreater(a, b) ==
    \/ Len(a) > Len(b)
    \/ /\ Len(a) = Len(b)
       /\ \E i \in 1..Len(a) :
              /\ DigitVal(a[i]) > DigitVal(b[i])
              /\ \A j \in 1..(i - 1) : a[j] = b[j]

\* the error of strconv.ParseUint(value, 10, 64): "syntax" for the empty
\* text and for a text with anything but digits in it, a sign included,
\* "range" for a numeral above 2^64 - 1
ParseUintErr(value) ==
    IF value = <<>> \/ (\E i \in 1..Len(value) : ~IsDigit(value[i])) THEN "syntax"
    ELSE IF DigitsGreater(StripZeros(value), MaxUint64Digits) THEN "range"
    ELSE "none"

\* setUint: the number, "-" standing for zero; ok is false when the text is
\* no number of 64 bits
setUint(value) ==
    IF value = S_dash THEN [ok |-> TRUE, v |-> 0]
    ELSE IF ParseUintErr(value) = "none"
    THEN [ok |-> TRUE, v |-> UintOf(value)]
    ELSE [ok |-> FALSE, v |-> 0]

\* setUint on a field, which is set to zero when the text is no number
setUintFieldZeroed(field, value) ==
    IF setUint(value).ok THEN [err |-> "none", field |-> setUint(value).v]
    ELSE [err |-> "parse", field |-> 0]

\* setUint on a field: the field is written only when the text is a number
setUintField(field, value) ==
    IF setUint(value).ok THEN [err |-> "none", field |-> setUint(value).v]
    ELSE [err |-> "parse", field |-> field]

NoInfo == [Name |-> <<>>, Origin |-> <<>>, Used |-> 0, Avail |-> 0,
           Mountpoint |-> <<>>, Compression |-> <<>>, Volsize |-> 0,
           Quota |-> 0, Referenced |-> 0, Written |-> 0, Logicalused |-> 0,
           Usedbydataset |-> 0]

\* parseLine: the twelve fields of a row, taken by position
parseLine(line) ==
    IF \E i \in {3, 4, 7, 8, 9, 10, 11, 12} : i <= Len(line) /\ ~setUint(line[i]).ok
    THEN [err |-> "parse", info |-> NoInfo]
    ELSE IF Len(line) < Len(dsPropList) THEN [err |-> "panic", info |-> NoInfo]
    ELSE [err |-> "none",
          info |-> [Name |-> setString(line[1]), Origin |-> setString(line[2]),
                    Used |-> setUint(line[3]).v, Avail |-> setUint(line[4]).v,
                    Mountpoint |-> setString(line[5]),
                    Compression |-> setString(line[6]),
                    Volsize |-> setUint(line[7]).v, Quota |-> setUint(line[8]).v,
                    Referenced |-> setUint(line[9]).v,
                    Written |-> setUint(line[10]).v,
                    Logicalused |-> setUint(line[11]).v,
                    Usedbydataset |-> setUint(line[12]).v]]

\* what zfsStdin returns once the tool has run: the tool's outcome, and the
\* error and rows of the call
zfsStdinResult(t) ==
    [tool |-> t,
     res |-> RunResult("zfsStdin", FALSE, "live",
                       IF t.code = 0 THEN "exit0" ELSE "exit1", t.out, t.err)]

\* zfsStdin run to its end on the tool's datasets
zfsStdin(stdin, args, props, pass) == zfsStdinResult(ZfsRun(args, stdin, props, pass))

\* zfs: zfsStdin without input
zfs(args, props, pass) == zfsStdin(NilStdin, args, props, pass)

\* the command line of info
infoArgs(t, filter, depth) ==
    <<S_list, S_Hp, S_t, t, S_o, dsPropListOptions, S_d, FormatUint(depth)>>
    \o (IF filter # <<>> THEN <<filter>> ELSE <<>>)

\* info's loop with the row put behind the later ones
parseRowsStepReversed(p, rest) ==
    IF p.err # "none" THEN [err |-> p.err, infos |-> <<>>]
    ELSE IF rest.err # "none" THEN rest
    ELSE [err |-> "none", infos |-> rest.infos \o <<p.info>>]

\* info's loop returning the rows parsed before the one that fails
parseRowsStepKeepParsed(p, rest) ==
    IF p.err # "none" THEN [err |-> p.err, infos |-> <<>>]
    ELSE IF rest.err # "none" THEN [err |-> rest.err, infos |-> <<p.info>> \o rest.infos]
    ELSE [err |-> "none", infos |-> <<p.info>> \o rest.infos]

\* info's loop over the rows, stopping at the first one that fails
parseRowsStep(p, rest) ==
    IF p.err # "none" THEN [err |-> p.err, infos |-> <<>>]
    ELSE IF rest.err # "none" THEN rest
    ELSE [err |-> "none", infos |-> <<p.info>> \o rest.infos]

RECURSIVE parseRows(_)
parseRows(rows) ==
    IF rows = <<>> THEN [err |-> "none", infos |-> <<>>]
    ELSE parseRowsStep(parseLine(rows[1]), parseRows(Tail(rows)))

infoResult(r) ==
    IF r.err.kind # "none" THEN [err |-> r.err.kind, infos |-> <<>>]
    ELSE parseRows(r.rows.tab)

\* info: the rows of zfs list, parsed
info(t, filter, depth, props, pass) ==
    infoResult(zfs(infoArgs(t, filter, depth), props, pass).res)

\* the first of the rows info returned
FirstInfo(r) ==
    IF r.err # "none" THEN [err |-> r.err, info |-> NoInfo]
    ELSE IF r.infos = <<>> THEN [err |-> "panic", info |-> NoInfo]
    ELSE [err |-> "none", info |-> r.infos[1]]

\* GetFilesystem, GetSnapshot: the first row of info at depth 0
GetFilesystem(name, props, pass) ==
    FirstInfo(info(datasetFilesystem, name, 0, props, pass))
GetSnapshot(name, props, pass) ==
    FirstInfo(info(datasetSnapshot, name, 0, props, pass))

RECURSIVE propsSlice(_, _)
\* propsSlice: -o key=value for every entry, in the order the map is visited
propsSlice(properties, order) ==
    IF order = <<>> THEN <<>>
    ELSE <<S_o, order[1] \o <<"=">> \o properties[order[1]]>>
         \o propsSlice(properties, Tail(order))

\* CreateFilesystem: the property map once the reserved key is taken out
CreatePropsKeepPassword(properties) == properties
CreateProps(properties) == Delete(properties, S_password)

\* CreateFilesystem: the command line
CreateFilesystemArgs(name, properties, order) ==
    <<S_create>>
    \o (IF DOMAIN CreateProps(properties) # {}
        THEN propsSlice(CreateProps(properties), order) ELSE <<>>)
    \o (IF S_password \in DOMAIN properties
        THEN <<S_o, S_encryptionOn, S_o, S_keylocationPrompt,
               S_o, S_keyformatPassphrase>>
        ELSE <<>>)
    \o <<name>>

\* CreateFilesystem: the child's input
CreateFilesystemStdin(properties) ==
    IF S_password \in DOMAIN properties
    THEN Stdin(properties[S_password] \o <<NL>> \o properties[S_password])
    ELSE NilStdin

\* setProperty: the command line
setPropertyArgs(name, key, val) == <<S_set, Join(<<key, val>>, <<"=">>), name>>

\* getProperty: the command line, the value read from the table, and whether
\* the property exists
getPropertyArgs(name, key) == <<S_get, S_H, key, name>>
getPropertyValue(table) == table[1][3]
getPropertyExists(table) == table[1][3] # S_dash

NoOp == [op |-> "none", name |-> <<>>, key |-> <<>>, val |-> <<>>,
         exists |-> FALSE, err |-> "none", args |-> <<>>, stdin |-> NilStdin,
         inProps |-> <<>>, order |-> <<>>, info |-> NoInfo, names |-> <<>>,
         flags |-> 0, tag |-> <<>>, before |-> <<>>,
         options |-> <<>>, rows |-> NilTable, sink |-> <<>>,
         object |-> [isNil |-> TRUE, m |-> <<>>]]

ZIdle ==
    /\ zprops = <<>> /\ zpass = <<>> /\ want = <<>> /\ last = NoOp
    /\ zholds = <<>> /\ zmnt = <<>> /\ gone = <<>>
    /\ zpools = [n \in PoolNames |-> ExportedEmpty(n)]

\* what the caller asked a dataset's properties to be
Wanted(m, by) == [k \in DOMAIN m |-> [val |-> m[k], by |-> by]]

\* the outcome of an operation that runs a command and then reads the dataset
\* back: the error, the dataset's row, and the tool's datasets afterwards
ThenGet(c, g) ==
    IF c.res.err.kind # "none"
    THEN [err |-> c.res.err.kind, info |-> NoInfo, props |-> c.tool.props,
          pass |-> c.tool.pass]
    ELSE [err |-> g.err, info |-> IF g.err = "none" THEN g.info ELSE NoInfo,
          props |-> c.tool.props, pass |-> c.tool.pass]

CreateFilesystemThen(name, c) ==
    ThenGet(c, GetFilesystem(name, c.tool.props, c.tool.pass))

\* CreateFilesystem: create the dataset, then read it back
CreateFilesystem(name, properties, order, props, pass) ==
    CreateFilesystemThen(name,
        zfsStdin(CreateFilesystemStdin(properties),
                 CreateFilesystemArgs(name, properties, order), props, pass))

SnapshotThen(snapName, c) ==
    ThenGet(c, GetSnapshot(snapName, c.tool.props, c.tool.pass))

\* Filesystem.Snapshot: take the snapshot, then read it back
Snapshot(snapName, props, pass) ==
    SnapshotThen(snapName, zfs(<<S_snapshot, snapName>>, props, pass))

\* getProperty: the error, the value and whether the property exists
getPropertyResult(r) ==
    IF r.err.kind # "none"
    THEN [err |-> r.err.kind, val |-> <<>>, exists |-> FALSE]
    ELSE IF r.rows.tab = <<>> \/ Len(r.rows.tab[1]) < 3
    THEN [err |-> "panic", val |-> <<>>, exists |-> FALSE]
    ELSE IF getPropertyExists(r.rows.tab)
    THEN [err |-> "none", val |-> getPropertyValue(r.rows.tab), exists |-> TRUE]
    ELSE [err |-> "none", val |-> <<>>, exists |-> FALSE]

getProperty(name, key, props, pass) ==
    getPropertyResult(zfs(getPropertyArgs(name, key), props, pass).res)

ZCreateFilesystemDone(name, properties, order, r) ==
    /\ zprops' = r.props
    /\ zpass' = r.pass
    /\ want' = IF r.err = "none"
               THEN Put(want, name, Wanted(Delete(properties, S_password), "create"))
               ELSE want
    /\ gone' = IF r.err = "none" THEN Delete(gone, name) ELSE gone
    /\ last' = [NoOp EXCEPT !.op = "CreateFilesystem", !.name = name,
                            !.err = r.err, !.info = r.info,
                            !.args = CreateFilesystemArgs(name, properties, order),
                            !.stdin = CreateFilesystemStdin(properties),
                            !.inProps = properties, !.order = order]

\* CreateFilesystem(ctx, name, properties), the range over the map visiting
\* the keys in the given order
ZCreateFilesystem(name, properties, order) ==
    /\ order \in IterOrders(CreateProps(properties))
    /\ ZCreateFilesystemDone(name, properties, order,
           CreateFilesystem(name, properties, order, zprops, zpass))
    /\ UNCHANGED <<lvars, xvars, svars, zholds, zmnt, zpools>>

ZSnapshotDone(snapName, r) ==
    /\ zprops' = r.props
    /\ zpass' = r.pass
    /\ want' = IF r.err = "none" THEN Put(want, snapName, <<>>) ELSE want
    /\ gone' = IF r.err = "none" THEN Delete(gone, snapName) ELSE gone
    /\ last' = [NoOp EXCEPT !.op = "Snapshot", !.name = snapName, !.err = r.err,
                            !.args = <<S_snapshot, snapName>>, !.info = r.info]

\* Filesystem.Snapshot(ctx, name) on the filesystem fs
ZSnapshot(fs, name) ==
    /\ ZSnapshotDone(fs \o <<"@">> \o name,
                     Snapshot(fs \o <<"@">> \o name, zprops, zpass))
    /\ UNCHANGED <<lvars, xvars, svars, zholds, zmnt, zpools>>

ZSetPropertyDone(name, key, val, c) ==
    /\ zprops' = c.tool.props
    /\ zpass' = c.tool.pass
    /\ want' = IF c.res.err.kind = "none"
               THEN Put(want, name, Put(want[name], key, [val |-> val, by |-> "set"]))
               ELSE want
    /\ last' = [NoOp EXCEPT !.op = "SetProperty", !.name = name, !.key = key,
                            !.val = val, !.err = c.res.err.kind,
                            !.args = setPropertyArgs(name, key, val)]

\* SetProperty(ctx, key, val) on the filesystem or snapshot called name
ZSetProperty(name, key, val) ==
    /\ ZSetPropertyDone(name, key, val,
                        zfs(setPropertyArgs(name, key, val), zprops, zpass))
    /\ UNCHANGED <<lvars, xvars, svars, zholds, zmnt, zpools, gone>>

ZGetPropertyDone(name, key, r) ==
    last' = [NoOp EXCEPT !.op = "GetProperty", !.name = name, !.key = key,
                         !.val = r.val, !.exists = r.exists, !.err = r.err,
                         !.args = getPropertyArgs(name, key)]

\* GetProperty(ctx, key) on the filesystem or snapshot called name
ZGetProperty(name, key) ==
    /\ ZGetPropertyDone(name, key, getProperty(name, key, zprops, zpass))
    /\ UNCHANGED <<zprops, zpass, want, zholds, zmnt, zpools, gone, xvars, svars, lvars>>

---------------------------------------------------------------------------
(* Listings *)

\* the names of the entities built from the rows info returned
NamesOf(r) ==
    [err |-> r.err, names |-> [i \in 1..Len(r.infos) |-> r.infos[i].Name]]

\* Filesystems(ctx): every filesystem, depth math.MaxUint16
Filesystems(props, pass) ==
    NamesOf(info(datasetFilesystem, <<>>, 65535, props, pass))

\* snapshots(ctx, filter, depth)
snapshots(filter, depth, props, pass) ==
    NamesOf(info(datasetSnapshot, filter, depth, props, pass))

\* Snapshots(ctx): every snapshot, depth math.MaxUint16
Snapshots(props, pass) == snapshots(<<>>, 65535, props, pass)

\* Filesystem.Snapshots(ctx) with every level under the filesystem
FilesystemSnapshotsUnbounded(name, props, pass) ==
    snapshots(name, 65535, props, pass)
\* Filesystem.Snapshots(ctx): depth 1 under the filesystem
FilesystemSnapshots(name, props, pass) == snapshots(name, 1, props, pass)

\* Children with the first row kept
ChildrenKeepFirst(r) == r
\* Children: infos[1:], which panics on an empty list
ChildrenRows(r) ==
    IF r.err # "none" THEN r
    ELSE IF r.infos = <<>> THEN [err |-> "panic", infos |-> <<>>]
    ELSE [err |-> "none", infos |-> Tail(r.infos)]

\* Filesystem.Children(ctx): depth 1 under the filesystem, first row dropped
Children(name, props, pass) ==
    NamesOf(ChildrenRows(info(datasetFilesystem, name, 1, props, pass)))

\* a listing call returns: op on the dataset name (empty for the global ones)
ZListed(op, name, r) ==
    /\ last' = [NoOp EXCEPT !.op = op, !.name = name, !.err = r.err,
                            !.names = r.names]
    /\ UNCHANGED <<zprops, zpass, want, zholds, zmnt, zpools, gone, xvars, svars, lvars>>

LNext ==
    \/ \E name \in TreeFsNames : ZCreateFilesystem(name, <<>>, <<>>)
    \/ \E n \in TreeSnapNames :
           ZSnapshot(ParentOf(n), SubSeq(n, Len(ParentOf(n)) + 2, Len(n)))
    \/ ZListed("Filesystems", <<>>, Filesystems(zprops, zpass))
    \/ ZListed("Snapshots", <<>>, Snapshots(zprops, zpass))
    \/ \E name \in TreeFsNames :
           ZListed("Children", name, Children(name, zprops, zpass))
    \/ \E name \in TreeFsNames :
           ZListed("Filesystem.Snapshots", name,
                   FilesystemSnapshots(name, zprops, zpass))

---------------------------------------------------------------------------
(* Destroy and the holds of a snapshot *)

\* the filesystems and snapshots of the destroy scenario, the snapshot that
\* is held, and the tags a caller gives
HeldFsNames == {<<"a">>, <<"a", "/", "a">>}
HeldSnap == <<"a", "@", "1">>
Tags == {<<"t">>, <<"t", " ", "u">>}

\* the DestroyFlag bits
DestroyDefault == 1
DestroyRecursive == 2
DestroyRecursiveClones == 4
DestroyDeferDeletion == 8
DestroyForceUmount == 16
\* the DestroyFlag values of the model: every combination of the five bits,
\* and the ones given to a destroy of the scenario with holds
DestroyFlags == 0..31
HeldDestroyFlags ==
    {DestroyDefault, DestroyRecursive, DestroyDeferDeletion,
     DestroyRecursive + DestroyDeferDeletion}

\* flags&bit != 0 for a flag value that is not negative
HasFlag(flags, bit) == (flags \div bit) % 2 = 1

\* destroy's command line with -d given whatever the flags
destroyArgsAlwaysDefer(name, flags) ==
    <<S_destroy>>
    \o (IF HasFlag(flags, DestroyRecursive) THEN <<S_r>> ELSE <<>>)
    \o (IF HasFlag(flags, DestroyRecursiveClones) THEN <<S_R>> ELSE <<>>)
    \o <<S_d>>
    \o (IF HasFlag(flags, DestroyForceUmount) THEN <<S_f>> ELSE <<>>)
    \o <<name>>

\* destroy's command line with -f put before -d
destroyArgsForceFirst(name, flags) ==
    <<S_destroy>>
    \o (IF HasFlag(flags, DestroyRecursive) THEN <<S_r>> ELSE <<>>)
    \o (IF HasFlag(flags, DestroyRecursiveClones) THEN <<S_R>> ELSE <<>>)
    \o (IF HasFlag(flags, DestroyForceUmount) THEN <<S_f>> ELSE <<>>)
    \o (IF HasFlag(flags, DestroyDeferDeletion) THEN <<S_d>> ELSE <<>>)
    \o <<name>>

\* destroy: the command line
destroyArgs(name, flags) ==
    <<S_destroy>>
    \o (IF HasFlag(flags, DestroyRecursive) THEN <<S_r>> ELSE <<>>)
    \o (IF HasFlag(flags, DestroyRecursiveClones) THEN <<S_R>> ELSE <<>>)
    \o (IF HasFlag(flags, DestroyDeferDeletion) THEN <<S_d>> ELSE <<>>)
    \o (IF HasFlag(flags, DestroyForceUmount) THEN <<S_f>> ELSE <<>>)
    \o <<name>>

\* zfs run to its end on the tool's datasets and holds
zfsHeld(args, props, holds) == zfsStdinResult(ZfsRunHeld(args, props, holds))

\* destroy, Snapshot.Hold, Snapshot.Release
destroy(name, flags, props, holds) == zfsHeld(destroyArgs(name, flags), props, holds)
Hold(name, tag, props, holds) == zfsHeld(<<S_hold, tag, name>>, props, holds)
Release(name, tag, props, holds) == zfsHeld(<<S_release, tag, name>>, props, holds)

\* Snapshot.Holds: the second column of a row
HoldsColumn(h) == h[2]

\* Snapshot.Holds: the column of every row, in the order of the rows
HoldsResult(r) ==
    IF r.err.kind # "none" THEN [err |-> r.err.kind, names |-> <<>>]
    ELSE IF \E i \in 1..Len(r.rows.tab) : Len(r.rows.tab[i]) < 2
    THEN [err |-> "panic", names |-> <<>>]
    ELSE [err |-> "none",
          names |-> [i \in 1..Len(r.rows.tab) |-> HoldsColumn(r.rows.tab[i])]]
Holds(name, props, holds) == HoldsResult(zfsHeld(<<S_holds, S_H, name>>, props, holds).res)

\* the datasets behind a command that destroys, holds or releases
ZHeldDone(t) ==
    /\ zprops' = t.props
    /\ zholds' = t.holds
    /\ zpass' = [n \in DOMAIN zpass \cap DOMAIN t.props |-> zpass[n]]
    /\ zmnt' = [n \in DOMAIN zmnt \cap DOMAIN t.props |-> zmnt[n]]
    /\ want' = [n \in DOMAIN want \cap DOMAIN t.props |-> want[n]]
    /\ UNCHANGED <<zpools, xvars, svars, lvars>>

ZDestroyDone(name, flags, r) ==
    /\ ZHeldDone(r.tool)
    /\ gone' = IF r.res.err.kind = "none"
               THEN Put(gone, name, HasFlag(flags, DestroyDeferDeletion))
               ELSE gone
    /\ last' = [NoOp EXCEPT !.op = "Destroy", !.name = name, !.flags = flags,
                            !.err = r.res.err.kind,
                            !.args = destroyArgs(name, flags)]

\* Filesystem.Destroy, Snapshot.Destroy
ZDestroy(name, flags) == ZDestroyDone(name, flags, destroy(name, flags, zprops, zholds))

ZHoldDone(op, name, tag, r) ==
    /\ ZHeldDone(r.tool)
    /\ last' = [NoOp EXCEPT !.op = op, !.name = name, !.tag = tag,
                            !.err = r.res.err.kind]
    /\ UNCHANGED gone

\* Snapshot.Hold, Snapshot.Release
ZHold(name, tag) == ZHoldDone("Hold", name, tag, Hold(name, tag, zprops, zholds))
ZRelease(name, tag) ==
    ZHoldDone("Release", name, tag, Release(name, tag, zprops, zholds))

\* Snapshot.Holds
ZHolds(name) == ZListed("Holds", name, Holds(name, zprops, zholds))

ZGetDone(name, r) ==
    /\ last' = [NoOp EXCEPT !.op = "Get", !.name = name, !.err = r.err,
                            !.info = r.info]
    /\ UNCHANGED <<zprops, zpass, want, zholds, zmnt, zpools, gone, xvars, svars, lvars>>

\* GetFilesystem, GetSnapshot
ZGetFilesystem(name) == ZGetDone(name, GetFilesystem(name, zprops, zpass))
ZGetSnapshot(name) == ZGetDone(name, GetSnapshot(name, zprops, zpass))

\* destroys with every flag value on a filesystem and its snapshot
DNext ==
    \/ ZCreateFilesystem(ParentOf(HeldSnap), <<>>, <<>>)
    \/ ZSnapshot(ParentOf(HeldSnap), <<"1">>)
    \/ \E name \in {ParentOf(HeldSnap), HeldSnap}, flags \in DestroyFlags :
           ZDestroy(name, flags)
    \/ ZGetFilesystem(ParentOf(HeldSnap))
    \/ ZGetSnapshot(HeldSnap)

\* destroys, holds and releases on a filesystem, its child and its snapshot
HNext ==
    \/ \E name \in HeldFsNames : ZCreateFilesystem(name, <<>>, <<>>)
    \/ ZSnapshot(ParentOf(HeldSnap), <<"1">>)
    \/ \E name \in HeldFsNames \cup {HeldSnap}, flags \in HeldDestroyFlags :
           ZDestroy(name, flags)
    \/ \E tag \in Tags : ZHold(HeldSnap, tag)
    \/ \E tag \in Tags : ZRelease(HeldSnap, tag)
    \/ ZHolds(HeldSnap)
    \/ \E name \in HeldFsNames : ZGetFilesystem(name)
    \/ ZGetSnapshot(HeldSnap)

---------------------------------------------------------------------------
(* Pools *)

\* zpool: the executor on the zpool program, run to its end
zpool(args, pools, props, pass, holds) ==
    zfsStdinResult(ZpoolRun(args, pools, props, pass, holds))

\* Pools: the first column of a row
PoolsColumn(line) == line[1]

\* Pools with the first row left out
PoolsRowsSkipFirst(tab) == IF tab = <<>> THEN <<>> ELSE Tail(tab)
\* Pools: every row
PoolsRows(tab) == tab

\* Pools: one Pool for every row, in the order of the rows
PoolsResult(r) ==
    IF r.err.kind # "none" THEN [err |-> r.err.kind, names |-> <<>>]
    ELSE IF \E i \in 1..Len(r.rows.tab) : r.rows.tab[i] = <<>>
    THEN [err |-> "panic", names |-> <<>>]
    ELSE [err |-> "none",
          names |-> [i \in 1..Len(PoolsRows(r.rows.tab)) |->
                         PoolsColumn(PoolsRows(r.rows.tab)[i])]]
Pools(pools, props, pass, holds) ==
    PoolsResult(zpool(<<S_list, S_H, S_o, S_name>>, pools, props, pass, holds).res)

\* GetPool, ImportPool, Pool.Export
GetPool(name, pools, props, pass, holds) ==
    zpool(<<S_list, S_H, S_o, S_name, name>>, pools, props, pass, holds)
ImportPool(name, pools, props, pass, holds) ==
    zpool(<<S_import, name>>, pools, props, pass, holds)
Export(name, pools, props, pass, holds) ==
    zpool(<<S_export, name>>, pools, props, pass, holds)

\* what a caller lists: the pools, the filesystems and the snapshots
Listing(pools, props, pass, holds) ==
    [pools |-> Pools(pools, props, pass, holds),
     fs |-> Filesystems(props, pass),
     snaps |-> Snapshots(props, pass)]

\* a pool call returns; before is what the caller would have listed before it
ZPoolDone(op, name, r, before) ==
    /\ zpools' = r.tool.pools
    /\ zprops' = r.tool.props
    /\ zpass' = r.tool.pass
    /\ zholds' = r.tool.holds
    /\ zmnt' = [n \in DOMAIN zmnt \cap DOMAIN r.tool.props |-> zmnt[n]]
    /\ last' = [NoOp EXCEPT !.op = op, !.name = name, !.err = r.res.err.kind,
                            !.before = before]
    /\ UNCHANGED <<want, gone, xvars, svars, lvars>>

ZPools == ZListed("Pools", <<>>, Pools(zpools, zprops, zpass, zholds))
ZGetPool(name) ==
    ZPoolDone("GetPool", name, GetPool(name, zpools, zprops, zpass, zholds), <<>>)
ZImportPool(name) ==
    ZPoolDone("ImportPool", name,
              ImportPool(name, zpools, zprops, zpass, zholds), <<>>)
ZExport(name) ==
    ZPoolDone("Export", name, Export(name, zpools, zprops, zpass, zholds),
              Listing(zpools, zprops, zpass, zholds))

\* pools imported and exported, datasets created and listed
PNext ==
    \/ \E name \in PoolNames : ZImportPool(name)
    \/ \E name \in PoolNames : ZExport(name)
    \/ \E name \in PoolNames : ZGetPool(name)
    \/ ZPools
    \/ \E name \in PoolFsNames : ZCreateFilesystem(name, <<>>, <<>>)
    \/ ZSnapshot(ParentOf(PoolSnap), <<"1">>)
    \/ ZListed("Filesystems", <<>>, Filesystems(zprops, zpass))
    \/ ZListed("Snapshots", <<>>, Snapshots(zprops, zpass))

---------------------------------------------------------------------------
(* Mounts and keys *)

\* the properties of the encrypted filesystem, and what a caller writes to
\* the file in it
EncProps == [k \in {S_password} |-> <<"x">>]
Contents == {<<"1">>, <<"2">>}
\* the filesystems of the mount scenario, created with or without password
MntFsNames == {<<"f">>, <<"a">>}

\* zfsStdin run to its end on the tool's mounts and keys
zfsStdinMnt(stdin, args, props, pass, mnt) ==
    zfsStdinResult(ZfsRunMnt(args, stdin, props, pass, mnt))

\* Mount with the command of Unmount
MountArgsUmount(name) == <<S_umount, name>>
\* Filesystem.Mount, Unmount, LoadKey, UnloadKey: the command lines
MountArgs(name) == <<S_mount, name>>
UnmountArgs(name) == <<S_umount, name>>
LoadKeyArgs(name) == <<S_loadKey, name>>
UnloadKeyArgs(name) == <<S_unloadKey, name>>

Mount(name, props, pass, mnt) ==
    zfsStdinMnt(NilStdin, MountArgs(name), props, pass, mnt)
Unmount(name, props, pass, mnt) ==
    zfsStdinMnt(NilStdin, UnmountArgs(name), props, pass, mnt)
LoadKey(name, password, props, pass, mnt) ==
    zfsStdinMnt(Stdin(password), LoadKeyArgs(name), props, pass, mnt)
UnloadKey(name, props, pass, mnt) ==
    zfsStdinMnt(NilStdin, UnloadKeyArgs(name), props, pass, mnt)

\* the file a caller reads under the mountpoint: there when mounted
Visible(mnt, name) ==
    IF MntOf(mnt, name).mounted
    THEN [err |-> "none", data |-> MntOf(mnt, name).data]
    ELSE [err |-> "notexist", data |-> <<>>]

\* a mount or key call returns; asked is what a successful call did to the
\* key as the caller sees it
ZMntDone(op, name, r, asked) ==
    /\ zmnt' = IF r.res.err.kind = "none"
               THEN [r.tool.mnt EXCEPT ![name].keyAsked = asked]
               ELSE r.tool.mnt
    /\ last' = [NoOp EXCEPT !.op = op, !.name = name, !.err = r.res.err.kind,
                            !.before = MntOf(zmnt, name)]
    /\ UNCHANGED <<zprops, zpass, want, zholds, zpools, gone, xvars, svars, lvars>>

ZMount(name) ==
    ZMntDone("Mount", name, Mount(name, zprops, zpass, zmnt),
             MntOf(zmnt, name).keyAsked)
ZUnmount(name) ==
    ZMntDone("Unmount", name, Unmount(name, zprops, zpass, zmnt),
             MntOf(zmnt, name).keyAsked)
ZLoadKey(name, password) ==
    ZMntDone("LoadKey", name, LoadKey(name, password, zprops, zpass, zmnt), TRUE)
ZUnloadKey(name) ==
    ZMntDone("UnloadKey", name, UnloadKey(name, zprops, zpass, zmnt), FALSE)

\* the caller writes the file under the mountpoint of a mounted filesystem
ZWriteFile(name, c) ==
    /\ name \in DOMAIN zprops
    /\ MntOf(zmnt, name).mounted
    /\ zmnt' = Put(zmnt, name, [MntOf(zmnt, name) EXCEPT !.data = c, !.written = c])
    /\ last' = [NoOp EXCEPT !.op = "WriteFile", !.name = name]
    /\ UNCHANGED <<zprops, zpass, want, zholds, zpools, gone, xvars, svars, lvars>>

\* an encrypted filesystem mounted, unmounted, its key loaded and unloaded
KNext ==
    \/ \E name \in MntFsNames, properties \in {EncProps, <<>>} :
           ZCreateFilesystem(name, properties, <<>>)
    \/ \E name \in MntFsNames : ZMount(name)
    \/ \E name \in MntFsNames : ZUnmount(name)
    \/ \E name \in MntFsNames, password \in OtherPasswords : ZLoadKey(name, password)
    \/ \E name \in MntFsNames : ZUnloadKey(name)
    \/ \E name \in MntFsNames, c \in Contents : ZWriteFile(name, c)
    \/ \E name \in MntFsNames, flags \in {DestroyDefault} : ZDestroy(name, flags)

---------------------------------------------------------------------------
(* Send *)

\* the filesystems and snapshots of the send scenario, and the values of
\* SendOptions: IncrementFrom is a snapshot or nil (the empty name)
SendFsNames == {<<"a">>, <<"a", "/", "a">>}
SendSnapNames == TreeSnapNames
SendOptionValues ==
    [IncrementFrom : SendSnapNames \cup {<<>>}, Properties : BOOLEAN, Raw : BOOLEAN]

\* IncrementalSend with the base behind the flag's place
IncrementalArgsBaseFirst(base) == <<base, S_i>>
\* IncrementalSend: "-i", base.Info.Name
IncrementalArgs(base) == <<S_i, base>>

\* Send: the command line for the options
SendArgs(name, options) ==
    <<S_send>>
    \o (IF options.IncrementFrom # <<>>
        THEN IncrementalArgs(options.IncrementFrom) ELSE <<>>)
    \o (IF options.Properties THEN <<S_p>> ELSE <<>>)
    \o (IF options.Raw THEN <<S_w>> ELSE <<>>)
    \o <<name>>

\* zfsStdout run to its end: the error, no rows, and what the sink received
zfsStdoutResult(t) ==
    [res |-> RunResult("zfsStdout", zfsStdoutSink, "live",
                       IF t.code = 0 THEN "exit0" ELSE "exit1", t.out, t.err),
     sink |-> IF zfsStdoutSink THEN t.out ELSE <<>>]
zfsStdout(args, props) == zfsStdoutResult(ZfsSend(args, props))

\* Snapshot.Send
Send(name, options, props) == zfsStdout(SendArgs(name, options), props)

ZSendDone(name, options, r) ==
    /\ last' = [NoOp EXCEPT !.op = "Send", !.name = name, !.options = options,
                            !.args = SendArgs(name, options),
                            !.err = r.res.err.kind, !.rows = r.res.rows,
                            !.sink = r.sink]
    /\ UNCHANGED <<zprops, zpass, want, zholds, zmnt, zpools, gone, xvars, svars, lvars>>

ZSend(name, options) == ZSendDone(name, options, Send(name, options, zprops))

\* the snapshots of a filesystem are taken in the order of their names
ZSnapshotInOrder(n) ==
    /\ \A k \in SendSnapNames :
           (ParentOf(k) = ParentOf(n) /\ PlaceOf(k) < PlaceOf(n)) => k \in DOMAIN zprops
    /\ ZSnapshot(ParentOf(n), SubSeq(n, Len(ParentOf(n)) + 2, Len(n)))

\* snapshots taken and sent with every value of the options
ONext ==
    \/ \E name \in SendFsNames : ZCreateFilesystem(name, <<>>, <<>>)
    \/ \E n \in SendSnapNames : ZSnapshotInOrder(n)
    \/ \E name \in SendSnapNames, options \in SendOptionValues : ZSend(name, options)

---------------------------------------------------------------------------
(* The older listing, with the recursive flag in place of the depth *)

\* zfs list -Hp -t type -o columns [-r] [name]: without a name every dataset
\* of the type; with -r the named dataset and everything under it; with a
\* name alone the named dataset, or, for the snapshot type and the name of
\* a filesystem, the snapshots of that filesystem
ZfsListRecursive(args, props, pass) ==
    IF Len(args) \notin {6, 7, 8} \/ args[1] # S_list \/ args[2] # S_Hp
       \/ args[3] # S_t \/ args[5] # S_o
       \/ args[4] \notin {datasetFilesystem, datasetSnapshot}
       \/ (Len(args) = 8 /\ args[7] # S_r)
       \/ (Len(args) > 6 /\ args[Len(args)] \notin DOMAIN props)
    THEN ToolFail(props, pass)
    ELSE ToolOk(ListText(Listed(Namespace, args[4],
                                IF Len(args) > 6 THEN args[Len(args)] ELSE <<>>,
                                IF Len(args) # 7 THEN 65535
                                ELSE IF /\ args[4] = datasetSnapshot
                                        /\ ~IsSnapshotName(args[7])
                                     THEN 1 ELSE 0,
                                props),
                         Split(args[6], ","), props),
                props, pass)

\* the command line of the older info, with -r before every name
infoArgsRecursiveAlways(t, filter, recursive) ==
    <<S_list, S_Hp, S_t, t, S_o, dsPropListOptions>>
    \o (IF filter # <<>> THEN <<S_r, filter>> ELSE <<>>)

\* the command line of the older info: -r only together with a name
infoArgsRecursive(t, filter, recursive) ==
    <<S_list, S_Hp, S_t, t, S_o, dsPropListOptions>>
    \o (IF filter # <<>>
        THEN (IF recursive THEN <<S_r>> ELSE <<>>) \o <<filter>>
        ELSE <<>>)

\* the older info: the rows of zfs list, parsed
infoRecursive(t, filter, recursive, props, pass) ==
    infoResult(zfsStdinResult(
        ZfsListRecursive(infoArgsRecursive(t, filter, recursive), props, pass)).res)

\* what a listing query returns: its error, the names of its entities and,
\* for the two Get queries, the entity
Answer(err, names, inf) == [err |-> err, names |-> names, info |-> inf]
AnswerOfNames(r) == Answer(r.err, r.names, NoInfo)
AnswerOfInfo(r) == Answer(r.err, <<>>, r.info)

ListingOps == {"Filesystems", "Snapshots", "GetFilesystem", "GetSnapshot",
               "Children", "Filesystem.Snapshots"}

\* the queries of the older revision
ListingRecursive(op, name, props, pass) ==
    CASE op = "Filesystems" ->
           AnswerOfNames(NamesOf(infoRecursive(datasetFilesystem, <<>>, FALSE, props, pass)))
      [] op = "Snapshots" ->
           AnswerOfNames(NamesOf(infoRecursive(datasetSnapshot, <<>>, FALSE, props, pass)))
      [] op = "GetFilesystem" ->
           AnswerOfInfo(FirstInfo(infoRecursive(datasetFilesystem, name, FALSE, props, pass)))
      [] op = "GetSnapshot" ->
           AnswerOfInfo(FirstInfo(infoRecursive(datasetSnapshot, name, FALSE, props, pass)))
      [] op = "Children" ->
           AnswerOfNames(NamesOf(ChildrenRows(
               infoRecursive(datasetFilesystem, name, TRUE, props, pass))))
      [] op = "Filesystem.Snapshots" ->
           AnswerOfNames(NamesOf(infoRecursive(datasetSnapshot, name, FALSE, props, pass)))

\* the queries of the revision with the depth
ListingDepth(op, name, props, pass) ==
    CASE op = "Filesystems" -> AnswerOfNames(Filesystems(props, pass))
      [] op = "Snapshots" -> AnswerOfNames(Snapshots(props, pass))
      [] op = "GetFilesystem" -> AnswerOfInfo(GetFilesystem(name, props, pass))
      [] op = "GetSnapshot" -> AnswerOfInfo(GetSnapshot(name, props, pass))
      [] op = "Children" -> AnswerOfNames(Children(name, props, pass))
      [] op = "Filesystem.Snapshots" ->
           AnswerOfNames(FilesystemSnapshots(name, props, pass))

\* the filesystems and snapshots of the scenario: three levels
DeepFsNames == {<<"a">>, <<"a", "/", "a">>, <<"a", "/", "a", "/", "a">>, <<"b">>}
DeepSnapNames == {<<"a", "@", "1">>, <<"a", "/", "a", "@", "1">>}

\* the names a query takes
ListingNames(op) ==
    CASE op \in {"Filesystems", "Snapshots"} -> {<<>>}
      [] op = "GetSnapshot" -> DeepSnapNames
      [] OTHER -> DeepFsNames

\* a query is answered by both revisions on the same datasets
ZListedBothDone(op, name, new, old) ==
    /\ last' = [NoOp EXCEPT !.op = op, !.name = name, !.err = new.err,
                            !.names = new.names, !.info = new.info,
                            !.before = old]
    /\ UNCHANGED <<zprops, zpass, want, zholds, zmnt, zpools, gone, xvars, svars, lvars>>

ZListedBoth(op, name) ==
    ZListedBothDone(op, name, ListingDepth(op, name, zprops, zpass),
                    ListingRecursive(op, name, zprops, zpass))

\* a caller building a tree of three levels and asking both revisions
RNext ==
    \/ \E name \in DeepFsNames : ZCreateFilesystem(name, <<>>, <<>>)
    \/ \E n \in DeepSnapNames :
           ZSnapshot(ParentOf(n), SubSeq(n, Len(ParentOf(n)) + 2, Len(n)))
    \/ \E op \in ListingOps : \E name \in ListingNames(op) : ZListedBoth(op, name)

---------------------------------------------------------------------------
(* The older command.Run: its log events and the error it returns *)

\* the calls of command.Run, which may run at the same time
LogCalls == 1..MaxCalls
\* the command of the calls, and the argument lists given to them
ZfsCommand == <<"z", "f", "s">>
LogArgs == {<<S_list, S_Hp>>, <<S_get, S_H, <<"k">>, <<"a">>>>}
\* the loggers a caller installs; "nil" is the nil Logger
Loggers == {"nil", "A"}

\* exec.Command: the path the command name resolves to, and cmd.Args
LookPath(name) == <<"/", "b", "/">> \o name
cmdArgs(name, arg) == <<name>> \o arg

\* uuid.New().String() of the n-th call of uuid.New: a value not returned
\* before
UuidString(n) == <<"u">> \o FormatUint(n)

\* the tokens of the two events
W_START == <<"S", "T", "A", "R", "T">>
W_FINISH == <<"F", "I", "N", "I", "S", "H">>
IdToken(id) == <<"I", "D", ":">> \o id
StartTokens(id, joinedArgs) == <<IdToken(id), W_START, joinedArgs>>
FinishTokens(id) == <<IdToken(id), W_FINISH>>

\* logger.Log(cmd): the event goes to the logger installed at that moment
LogAppend(log, to, cmd) == Append(log, [to |-> to, cmd |-> cmd])

\* the log after cmd.Run, with FINISH only for a child that did not fail
LogAfterRunOnSuccess(log, to, id, child) ==
    IF child = "exit0" THEN LogAppend(log, to, FinishTokens(id)) ELSE log

\* the log after cmd.Run: FINISH whatever cmd.Run returned
LogAfterRun(log, to, id, child) == LogAppend(log, to, FinishTokens(id))

\* the error command.Run returns: nil for a child that exited zero, else
\* the error of cmd.Run with the debug line, which is cmd.Path, a space and
\* the joined arguments without their first byte
NoRunError == [Err |-> "none", Debug |-> <<>>]
RunError(name, arg, child) ==
    IF child = "exit0" THEN NoRunError
    ELSE [Err |-> IF child = "spawnfail" THEN "spawn" ELSE "exit",
          Debug |-> Join(<<LookPath(name), Tail(Join(cmdArgs(name, arg), <<SP>>))>>,
                         <<SP>>)]

NoCall == [pc |-> "idle", id |-> <<>>, arg |-> <<>>, child |-> "none",
           err |-> NoRunError]

LIdle ==
    /\ logger = "default"
    /\ llog = <<>>
    /\ luuids = 0
    /\ lrun = [i \in LogCalls |-> NoCall]

\* SetLogger(l): a nil logger is ignored
LSetLogger(l) ==
    /\ logger' = (IF l # "nil" THEN l ELSE logger)
    /\ UNCHANGED <<llog, luuids, lrun, xvars, svars, zvars>>

\* command.Run up to cmd.Run: the id is drawn and START is logged
LStart(i, arg) ==
    /\ lrun[i].pc = "idle"
    /\ luuids' = luuids + 1
    /\ llog' = LogAppend(llog, logger,
                         StartTokens(UuidString(luuids + 1),
                                     Join(cmdArgs(ZfsCommand, arg), <<SP>>)))
    /\ lrun' = [lrun EXCEPT ![i] = [NoCall EXCEPT !.pc = "running",
                                                  !.id = UuidString(luuids + 1),
                                                  !.arg = arg]]
    /\ UNCHANGED <<logger, xvars, svars, zvars>>

\* the child of a call is over: it was not started, or it exited
LChildOver(i, child) ==
    /\ lrun[i].pc = "running" /\ lrun[i].child = "none"
    /\ lrun' = [lrun EXCEPT ![i].child = child]
    /\ UNCHANGED <<logger, llog, luuids, xvars, svars, zvars>>

\* cmd.Run has returned: FINISH is logged and command.Run returns
LFinish(i) ==
    /\ lrun[i].pc = "running" /\ lrun[i].child # "none"
    /\ llog' = LogAfterRun(llog, logger, lrun[i].id, lrun[i].child)
    /\ lrun' = [lrun EXCEPT ![i].pc = "returned",
                            ![i].err = RunError(ZfsCommand, lrun[i].arg, lrun[i].child)]
    /\ UNCHANGED <<logger, luuids, xvars, svars, zvars>>

GNext ==
    \/ \E l \in Loggers : LSetLogger(l)
    \/ \E i \in LogCalls, arg \in LogArgs : LStart(i, arg)
    \/ \E i \in LogCalls, child \in {"exit0", "exit1", "spawnfail"} : LChildOver(i, child)
    \/ \E i \in LogCalls : LFinish(i)

---------------------------------------------------------------------------
(* Listings with a row that does not parse *)

\* the filesystems and the snapshot of the scenario; the row of the
\* filesystem with a space in its name does not parse
RowFsNames == {<<"c">>, <<"c", " ", "d">>, <<"c", "/", "e">>}
RowSnapNames == {<<"c", "@", "1">>}

\* the type, the filter and the depth of the listing a query runs
ListingType(op) ==
    IF op \in {"Snapshots", "GetSnapshot", "Filesystem.Snapshots"}
    THEN datasetSnapshot ELSE datasetFilesystem
ListingDepthOf(op) ==
    CASE op \in {"Filesystems", "Snapshots"} -> 65535
      [] op \in {"GetFilesystem", "GetSnapshot"} -> 0
      [] OTHER -> 1
\* the table the listing of a query gets from the tool
ListingRows(op, name, props, pass) ==
    zfs(infoArgs(ListingType(op), name, ListingDepthOf(op)), props, pass).res.rows.tab

\* the names a query takes in this scenario; the two Get queries are
\* asked for filesystems and for snapshots alike
RowListingNames(op) ==
    CASE op \in {"Filesystems", "Snapshots"} -> {<<>>}
      [] op \in {"GetFilesystem", "GetSnapshot"} -> RowFsNames \cup RowSnapNames
      [] OTHER -> RowFsNames

\* a listing query returns
ZAnsweredDone(op, name, r) ==
    /\ last' = [NoOp EXCEPT !.op = op, !.name = name, !.err = r.err,
                            !.names = r.names, !.info = r.info]
    /\ UNCHANGED <<zprops, zpass, want, zholds, zmnt, zpools, gone, xvars, svars, lvars>>

ZAnswered(op, name) == ZAnsweredDone(op, name, ListingDepth(op, name, zprops, zpass))

WNext ==
    \/ \E name \in RowFsNames : ZCreateFilesystem(name, <<>>, <<>>)
    \/ \E n \in RowSnapNames :
           ZSnapshot(ParentOf(n), SubSeq(n, Len(ParentOf(n)) + 2, Len(n)))
    \/ \E op \in ListingOps : \E name \in RowListingNames(op) : ZAnswered(op, name)

---------------------------------------------------------------------------
(* Decoding the text of a field *)

\* the texts decoded into a field: the sentinel, numerals with and without
\* leading zeros, signed and other texts that are no numerals, numerals
\* above 2^64 - 1
DecodeTexts ==
    {S_dash, <<>>, <<"0">>, <<"7">>, <<"0", "0", "7">>, <<"4", "2">>,
     <<"+", "7">>, <<"-", "7">>, <<"a">>, <<"7", "a">>, <<"-", "-">>,
     <<"1", "8", "4", "4", "6", "7", "4", "4", "0", "7",
       "3", "7", "0", "9", "5", "5", "1", "6", "1", "6">>,
     <<"0", "1", "8", "4", "4", "6", "7", "4", "4", "0", "7",
       "3", "7", "0", "9", "5", "5", "1", "6", "2", "0">>,
     <<"1", "0", "0", "0", "0", "0", "0", "0", "0", "0", "0",
       "0", "0", "0", "0", "0", "0", "0", "0", "0", "0">>}

\* setUint(&info.Used, value) on the Info of the last call
ZSetUintDone(value, r) ==
    /\ last' = [NoOp EXCEPT !.op = "setUint", !.val = value, !.err = r.err,
                            !.info = [last.info EXCEPT !.Used = r.field],
                            !.before = last.info]
    /\ UNCHANGED <<zprops, zpass, want, zholds, zmnt, zpools, gone, xvars, svars, lvars>>

ZSetUint(value) == ZSetUintDone(value, setUintField(last.info.Used, value))

\* setString(&info.Name, value) on the Info of the last call
ZSetString(value) ==
    /\ last' = [NoOp EXCEPT !.op = "setString", !.val = value,
                            !.info = [last.info EXCEPT !.Name = setString(value)],
                            !.before = last.info]
    /\ UNCHANGED <<zprops, zpass, want, zholds, zmnt, zpools, gone, xvars, svars, lvars>>

ENext ==
    \/ \E value \in DecodeTexts : ZSetUint(value)
    \/ \E value \in DecodeTexts : ZSetString(value)

---------------------------------------------------------------------------
(* The property map of the caller *)

\* a Go map held by the caller: the nil map, or a map with its entries; a
\* read of the nil map finds no entry
NilMap == [isNil |-> TRUE, m |-> <<>>]
MapObject(m) == [isNil |-> FALSE, m |-> m]

\* the maps a caller passes, and the filesystems created with them
CallerMaps ==
    {NilMap} \cup {MapObject(m) : m \in {pm \in PropMaps :
                                              \A k \in DOMAIN pm : pm[k] \in {<<"v">>, <<"x">>}}}
CallerFsNames == {<<"f">>, <<"a">>}

\* the caller's map after CreateFilesystem, with every entry taken out
CreateFilesystemObjectCleared(object) == [object EXCEPT !.m = <<>>]

\* the caller's map after CreateFilesystem: delete(properties, "password"),
\* which leaves the nil map as it is
CreateFilesystemObject(object) == [object EXCEPT !.m = CreateProps(object.m)]

\* CreateFilesystem(ctx, name, properties) on a map of the caller, for the
\* first time or again with the map an earlier call was given
ZCreateFilesystemOnDone(name, object, order, again, r) ==
    /\ zprops' = r.props
    /\ zpass' = r.pass
    /\ want' = IF r.err = "none"
               THEN Put(want, name, Wanted(CreateProps(object.m), "create"))
               ELSE want
    /\ gone' = IF r.err = "none" THEN Delete(gone, name) ELSE gone
    /\ last' = [NoOp EXCEPT !.op = "CreateFilesystem", !.name = name,
                            !.err = r.err, !.info = r.info,
                            !.args = CreateFilesystemArgs(name, object.m, order),
                            !.stdin = CreateFilesystemStdin(object.m),
                            !.inProps = object.m, !.order = order,
                            !.object = CreateFilesystemObject(object),
                            !.before = [object |-> object, again |-> again,
                                        existed |-> name \in DOMAIN zprops,
                                        carried |-> IF again THEN last.before.carried
                                                    ELSE S_password \in DOMAIN object.m]]
    /\ UNCHANGED <<lvars, xvars, svars, zholds, zmnt, zpools>>

ZCreateFilesystemOn(name, object, order, again) ==
    ZCreateFilesystemOnDone(name, object, order, again,
                            CreateFilesystem(name, object.m, order, zprops, zpass))

ZCreateFilesystemAgain(name, order) ==
    /\ last.op = "CreateFilesystem"
    /\ order \in IterOrders(CreateProps(last.object.m))
    /\ ZCreateFilesystemOn(name, last.object, order, TRUE)

BNext ==
    \/ \E name \in CallerFsNames, object \in CallerMaps :
           \E order \in IterOrders(CreateProps(object.m)) :
               ZCreateFilesystemOn(name, object, order, FALSE)
    \/ \E name \in CallerFsNames :
           \E order \in IterOrders(CreateProps(last.object.m)) :
               ZCreateFilesystemAgain(name, order)

---------------------------------------------------------------------------
(* The dataset operations of a caller, one after the other *)

ZNext ==
    \/ \E name \in FsNames, properties \in PropMaps :
           \E order \in IterOrders(CreateProps(properties)) :
               ZCreateFilesystem(name, properties, order)
    \/ \E fs \in FsNames, name \in SnapShortNames : ZSnapshot(fs, name)
    \/ \E name \in FsNames \cup SnapNames, key \in PropKeys, val \in Values :
           ZSetProperty(name, key, val)
    \/ \E name \in FsNames \cup SnapNames, key \in PropKeys : ZGetProperty(name, key)

---------------------------------------------------------------------------
(* Specifications *)

Init == XIdle /\ SIdle /\ ZIdle /\ LIdle

\* one invocation of the executor
SpecExec == Init /\ [][XNext]_vars

\* a Send / ReceiveSnapshot pair
SpecStream == Init /\ [][SNext]_vars

\* a caller's dataset operations, one after the other
SpecData == Init /\ [][ZNext]_vars

\* a caller building a tree of filesystems and snapshots and listing it
SpecList == Init /\ [][LNext]_vars

\* a caller's destroys with every flag value
SpecDestroy == Init /\ [][DNext]_vars

\* a caller's destroys, holds and releases on a small tree
SpecHold == Init /\ [][HNext]_vars

\* a caller's imports, exports and listings
SpecPool == Init /\ [][PNext]_vars

\* a caller asking the listing queries of both revisions
SpecRecursive == Init /\ [][RNext]_vars

\* calls of the older command.Run at the same time, and SetLogger
SpecLog == Init /\ [][GNext]_vars

\* a caller listing datasets one of whose rows does not parse
SpecRows == Init /\ [][WNext]_vars

\* texts decoded into the fields of an Info, one after the other
SpecDecode == Init /\ [][ENext]_vars

\* a caller creating filesystems with the same map more than once
SpecCreate == Init /\ [][BNext]_vars

\* a caller's mounts and key operations on an encrypted filesystem
SpecMount == Init /\ [][KNext]_vars

\* a caller's sends with every value of the options
SpecSend == Init /\ [][ONext]_vars

\* the pair under the scheduling of the Go runtime and of the operating
\* system: every goroutine and every child that can take a step takes one;
\* a cancellation and a failure of a child are never forced to happen
SpecStreamFair ==
    /\ SpecStream
    /\ WF_vars(\E plan \in SeqUpTo(Bytes, MaxStream) : SendStart(plan))
    /\ WF_vars(SendChildEmit)
    /\ WF_vars(SendChildSigpipe)
    /\ WF_vars(SendChildExit0)
    /\ WF_vars(SendCopyRead)
    /\ WF_vars(SendCopyEOF)
    /\ WF_vars(SendCopyWriteFail)
    /\ WF_vars(SendTerminate)
    /\ WF_vars(SendReturn)
    /\ WF_vars(RecvStart)
    /\ WF_vars(RecvCopyRead)
    /\ WF_vars(RecvCopyEOF)
    /\ WF_vars(RecvCopyWrite)
    /\ WF_vars(RecvCopyWriteFail)
    /\ WF_vars(RecvChildRead)
    /\ WF_vars(RecvChildEOF)
    /\ WF_vars(RecvChildExit0)
    /\ WF_vars(RecvTerminate)
    /\ WF_vars(\E fetch \in {"none", "exit"} : RecvReturn(fetch))

---------------------------------------------------------------------------
(* The executor's contract *)

C2_FailureNoRows ==
    (xPc = "returned" /\ xChild \in {"exit1", "spawnfail"}) =>
        /\ xResult.err.kind # "none"
        /\ xResult.err.Stderr = xErrBuf
        /\ xResult.rows = NilTable

C2_Witness ==
    /\ xPc = "returned" /\ xChild = "exit1" /\ ~xSink
    /\ ParseTable(xEmitted).tab # <<>>
    /\ xErrBuf # <<>>

---------------------------------------------------------------------------
(* The streaming protocol *)

\* C3: once Send has returned the caller's output stream is closed, and once
\* ReceiveSnapshot has returned the caller's input stream is closed,
\* whatever the outcome: success, a failed child, a child that could not be
\* started, a cancelled context.
C3_StreamsClosedOnReturn ==
    /\ sendPc = "returned" => pWClosed
    /\ recvPc = "returned" => pRClosed

C3_Witness ==
    /\ sendPc = "returned" /\ sendErr = "cancelled" /\ pWClosed
    /\ recvPc = "returned" /\ recvErr = "spawn" /\ pRClosed

\* C4: a Send and a ReceiveSnapshot joined by a pipe both return, in every
\* interleaving.
C4_BothReturn == <>(sendPc = "returned" /\ recvPc = "returned")

C4_Witness ==
    /\ sendPc = "returned" /\ recvPc = "returned"
    /\ rChild = "exit1" /\ sCopy = "failed" /\ sendErr # "none"

\* C5: when Send has returned without error, every byte its child wrote has
\* been read from the pipe by the receive side.
C5_SendCompletesAfterDrain ==
    (sendPc = "returned" /\ sendErr = "none") => pDelivered = sEmitted

C5_Witness ==
    /\ sendPc = "returned" /\ sendErr = "none"
    /\ Len(sEmitted) = MaxStream

\* C6: when Send and ReceiveSnapshot have both returned without error, the
\* bytes written to the receive child's input, and those the child read,
\* are the bytes the send child wrote, in the same order.
C6_RoundTrip ==
    (sendPc = "returned" /\ sendErr = "none" /\ recvPc = "returned" /\ recvErr = "none") =>
        /\ rDelivered = sEmitted
        /\ rConsumed = sEmitted
        /\ sEmitted = sPlan

C6_Witness ==
    /\ sendPc = "returned" /\ sendErr = "none"
    /\ recvPc = "returned" /\ recvErr = "none"
    /\ Len(sEmitted) = MaxStream /\ sEmitted[1] # sEmitted[2]

---------------------------------------------------------------------------
(* Properties given at creation, properties set later, and the password *)

\* the last call was a GetProperty that returned without error on a dataset
\* this caller created
GotProperty ==
    /\ last.op = "GetProperty"
    /\ last.err = "none"
    /\ last.name \in DOMAIN want

\* C8: after CreateFilesystem(name, P) succeeds, GetProperty(k) on that
\* filesystem returns P[k] for every key k of P, and reports that the
\* property does not exist for a key that was never set.
C8_CreatePropertiesReadBack ==
    (GotProperty /\ last.name \in FsNames) =>
        IF last.key \in DOMAIN want[last.name]
        THEN want[last.name][last.key].by = "create" =>
                 (last.exists /\ last.val = want[last.name][last.key].val)
        ELSE ~last.exists

\* C9: after SetProperty(k, v) succeeds on a filesystem or snapshot, a
\* GetProperty(k) on it returns v with exists = true, whatever was set on
\* the other keys in between.
C9_SetThenGet ==
    (/\ GotProperty
     /\ last.key \in DOMAIN want[last.name]
     /\ want[last.name][last.key].by = "set") =>
        (last.exists /\ last.val = want[last.name][last.key].val)

\* s occurs in t as a contiguous run of characters
OccursIn(s, t) ==
    \E i \in 0..(Len(t) - Len(s)) : SubSeq(t, i + 1, i + Len(s)) = s

EncryptionArgs ==
    <<S_o, S_encryptionOn, S_o, S_keylocationPrompt, S_o, S_keyformatPassphrase>>

\* C10: CreateFilesystem never passes the password as a property: with a
\* password in the map the command line holds no password= option and no
\* trace of the password (it is the same whatever the password is), it ends
\* with the three encryption options before the name, and the child's input
\* is the password, a newline, and the password again; without a password
\* there are no encryption options and no input.
C10_PasswordOnlyOnStdin ==
    last.op = "CreateFilesystem" =>
        /\ \A i \in 1..Len(last.args) :
               ~(CutEq(last.args[i]).found /\ CutEq(last.args[i]).key = S_password)
        /\ last.args[Len(last.args)] = last.name
        /\ IF S_password \in DOMAIN last.inProps
           THEN /\ \A i \in 1..Len(last.args) :
                       ~OccursIn(last.inProps[S_password], last.args[i])
                /\ \A pw \in OtherPasswords :
                       CreateFilesystemArgs(last.name,
                           Put(last.inProps, S_password, pw), last.order) = last.args
                /\ Len(last.args) >= 8
                /\ SubSeq(last.args, Len(last.args) - 6, Len(last.args) - 1)
                       = EncryptionArgs
                /\ last.stdin = Stdin(last.inProps[S_password] \o <<NL>>
                                      \o last.inProps[S_password])
           ELSE /\ \A i \in 1..Len(last.args) :
                       last.args[i] \notin {S_encryptionOn, S_keylocationPrompt,
                                            S_keyformatPassphrase}
                /\ last.stdin = NilStdin

\* a CreateFilesystem with a password and a property succeeded, and the tool
\* keeps the password as the dataset's passphrase
C10_Witness ==
    /\ last.op = "CreateFilesystem"
    /\ last.err = "none"
    /\ S_password \in DOMAIN last.inProps
    /\ DOMAIN last.inProps # {S_password}
    /\ last.name \in DOMAIN zpass
    /\ zpass[last.name] = last.inProps[S_password]

---------------------------------------------------------------------------
(* Listings: order, children, snapshots of a filesystem *)

\* the existing datasets among S, in the order of the namespace
RECURSIVE InOrder(_, _)
InOrder(names, S) ==
    IF names = <<>> THEN <<>>
    ELSE (IF names[1] \in S THEN <<names[1]>> ELSE <<>>) \o InOrder(Tail(names), S)

ExistingFs == {n \in DOMAIN zprops : ~IsSnapshotName(n)}
ExistingSnaps == {n \in DOMAIN zprops : IsSnapshotName(n)}

\* C11: Filesystems() and Snapshots() return one entity for every existing
\* filesystem (snapshot), in the order in which the tool lists them: a
\* parent before its children, siblings in order.
C11_ListingInToolOrder ==
    /\ (last.op = "Filesystems" /\ last.err = "none") =>
           last.names = InOrder(Namespace, ExistingFs)
    /\ (last.op = "Snapshots" /\ last.err = "none") =>
           last.names = InOrder(Namespace, ExistingSnaps)

\* Filesystems() returned a, a/a, a/b, b in that order
C11_Witness ==
    /\ last.op = "Filesystems"
    /\ last.err = "none"
    /\ last.names = <<<<"a">>, <<"a", "/", "a">>, <<"a", "/", "b">>, <<"b">>>>

C13_OwnSnapshotsOnly ==
    (last.op = "Filesystem.Snapshots" /\ last.name \in ExistingFs) =>
        /\ last.err = "none"
        /\ last.names = InOrder(Namespace,
                                {n \in ExistingSnaps : ParentOf(n) = last.name})

\* a.Snapshots() returned nothing although a/a has a snapshot
C13_Witness ==
    /\ last.op = "Filesystem.Snapshots"
    /\ last.name = <<"a">>
    /\ last.err = "none"
    /\ last.names = <<>>
    /\ <<"a", "/", "a", "@", "1">> \in ExistingSnaps

---------------------------------------------------------------------------
(* The snapshot a filesystem returns *)

\* C14: a successful Filesystem(parent).Snapshot(s) has issued the snapshot
\* invocation for parent@s and returns the snapshot fetched under that
\* name, so its Info.Name is parent + "@" + s; when the snapshot invocation
\* fails an error is returned and nothing is fetched.
C14_SnapshotNamedAsAsked ==
    last.op = "Snapshot" =>
        /\ last.args = <<S_snapshot, last.name>>
        /\ IF last.err = "none"
           THEN last.name \in DOMAIN zprops /\ last.info.Name = last.name
           ELSE last.info = NoInfo

---------------------------------------------------------------------------
(* Destroy *)

\* the flag constants a DestroyFlag value is the OR of
FlagConstants == {1, 2, 4, 8, 16}
OrOf(B) ==
    (IF 1 \in B THEN 1 ELSE 0) + (IF 2 \in B THEN 2 ELSE 0)
    + (IF 4 \in B THEN 4 ELSE 0) + (IF 8 \in B THEN 8 ELSE 0)
    + (IF 16 \in B THEN 16 ELSE 0)
ConstantsOf(flags) == CHOOSE B \in SUBSET FlagConstants : OrOf(B) = flags
\* the argument of a flag constant, and the place of an argument in the
\* order -r, -R, -d, -f
FlagWord(c) ==
    CASE c = 2 -> S_r [] c = 4 -> S_R [] c = 8 -> S_d [] c = 16 -> S_f
FlagPlace(w) ==
    CASE w = S_r -> 1 [] w = S_R -> 2 [] w = S_d -> 3 [] w = S_f -> 4
      [] OTHER -> 0

C16_DestroyArgs ==
    last.op = "Destroy" =>
        LET n == Len(last.args)
            mid == SubSeq(last.args, 2, n - 1)
        IN /\ n >= 2
           /\ last.args[1] = S_destroy
           /\ last.args[n] = last.name
           /\ \A i \in 1..Len(mid) : FlagPlace(mid[i]) # 0
           /\ \A i, j \in 1..Len(mid) : i < j => FlagPlace(mid[i]) < FlagPlace(mid[j])
           /\ \A c \in FlagConstants \ {DestroyDefault} :
                  (\E i \in 1..Len(mid) : mid[i] = FlagWord(c))
                  <=> c \in ConstantsOf(last.flags)
           /\ last.flags = DestroyDefault => last.args = <<S_destroy, last.name>>

\* a destroy with every flag set has succeeded on a snapshot
C16_Witness ==
    /\ last.op = "Destroy"
    /\ last.flags = OrOf(FlagConstants)
    /\ last.name = HeldSnap
    /\ last.err = "none"
    /\ last.args = <<S_destroy, S_r, S_R, S_d, S_f, HeldSnap>>

---------------------------------------------------------------------------
(* Holds *)

\* C17: Snapshot.Holds on a snapshot that exists returns without error
\* exactly the tags held and not yet released on it, one entry per hold, in
\* the order in which the tool reports them; the list is empty once every
\* hold is released.
C17_HoldsAreTheTags ==
    (last.op = "Holds" /\ last.name \in DOMAIN zprops) =>
        /\ last.err = "none"
        /\ last.names = HoldTags(zholds, last.name)

---------------------------------------------------------------------------
(* Pools *)

\* a sequence without the entries equal to x
Without(seq, x) == SelectSeq(seq, LAMBDA y : y # x)

\* the pool list of a caller in this state and in the next
PoolsNow == Pools(zpools, zprops, zpass, zholds)
PoolsNext == Pools(zpools', zprops', zpass', zholds')

\* C18: Pools returns without error exactly the imported pools, one per row
\* in the tool's order; a successful Export takes exactly that pool off the
\* list and a successful ImportPool puts exactly that pool on it; and after
\* an Export followed by ImportPool of the same pool the pool list and the
\* lists of filesystems and snapshots are those of before the export.
C18_PoolsAndRoundTrip ==
    /\ [](last.op = "Pools" =>
              last.err = "none" /\ last.names = ImportedPools(zpools))
    /\ [][/\ ((last'.op = "Export" /\ last'.err = "none") =>
                  (/\ PoolsNow.err = "none" /\ PoolsNext.err = "none"
                   /\ \E i \in 1..Len(PoolsNow.names) : PoolsNow.names[i] = last'.name
                   /\ PoolsNext.names = Without(PoolsNow.names, last'.name)))
           /\ ((last'.op = "ImportPool" /\ last'.err = "none") =>
                  (/\ PoolsNow.err = "none" /\ PoolsNext.err = "none"
                   /\ \E i \in 1..Len(PoolsNext.names) : PoolsNext.names[i] = last'.name
                   /\ PoolsNow.names = Without(PoolsNext.names, last'.name)))
           /\ ((/\ last.op = "Export" /\ last.err = "none"
                /\ last'.op = "ImportPool" /\ last'.err = "none"
                /\ last'.name = last.name) =>
                  (Listing(zpools', zprops', zpass', zholds') = last.before))]_vars

\* a pool with a filesystem and a snapshot in it was exported and has just
\* been imported again, next to another imported pool with a filesystem
C18_Witness ==
    /\ last.op = "ImportPool"
    /\ last.err = "none"
    /\ last.name = <<"p">>
    /\ {<<"p", "/", "a">>, PoolSnap, <<"q", "/", "a">>} \subseteq DOMAIN zprops
    /\ ImportedPools(zpools) = PoolOrder

---------------------------------------------------------------------------
(* Mounts and keys *)

\* C19 as stated: a Mount of the encrypted filesystem fails whenever the key
\* is not loaded and succeeds whenever it is (after the creation or a
\* LoadKey with the right password, until an UnloadKey), and after a Mount
\* that succeeded the file reads as it was written last.
C19_MountFollowsKey ==
    (last.op = "Mount" /\ last.name \in DOMAIN zpass) =>
        /\ (last.err = "none") <=> last.before.keyAsked
        /\ last.err = "none" =>
               Visible(zmnt, last.name) = [err |-> "none", data |-> last.before.written]

\* C19: a Mount of the encrypted filesystem fails whenever the key is not
\* loaded; with the key loaded (after the creation or a LoadKey with the
\* right password, until an UnloadKey) it succeeds when the filesystem is
\* not mounted and fails when it is mounted already; after a Mount that
\* succeeded the file reads as it was written last.
C19_MountFollowsKeyUnlessMounted ==
    (last.op = "Mount" /\ last.name \in DOMAIN zpass) =>
        /\ ~last.before.keyAsked => last.err = "exit"
        /\ last.before.mounted => last.err = "exit"
        /\ (last.before.keyAsked /\ ~last.before.mounted) => last.err = "none"
        /\ last.err = "none" =>
               Visible(zmnt, last.name) = [err |-> "none", data |-> last.before.written]

\* the filesystem was written to, unmounted, and is mounted again with its
\* key loaded: the file is there
C19_Witness ==
    /\ last.op = "Mount"
    /\ last.name \in DOMAIN zpass
    /\ last.err = "none"
    /\ ~last.before.mounted
    /\ last.before.keyAsked
    /\ Visible(zmnt, last.name) = [err |-> "none", data |-> <<"2">>]

---------------------------------------------------------------------------
(* Send *)

---------------------------------------------------------------------------
(* The depth in place of the recursive flag *)

\* the answer of the older revision, cut to the datasets one level under
\* the filesystem asked
DirectOnly(old, name) ==
    [old EXCEPT !.names = SelectSeq(old.names,
                                    LAMBDA n : Level(n) = Level(name) + 1)]

---------------------------------------------------------------------------
(* The log events of an invocation *)

\* the events of the log that carry the id, in order
EventsOf(id) == SelectSeq(llog, LAMBDA e : e.cmd[1] = IdToken(id))
\* the places of the log with a START, with a FINISH
StartsAt == {k \in 1..Len(llog) : llog[k].cmd[2] = W_START}
FinishesAt == {k \in 1..Len(llog) : llog[k].cmd[2] = W_FINISH}
TokensOf(events) == [k \in 1..Len(events) |-> events[k].cmd]

\* the events a call has emitted so far
LogOfCall(i) ==
    TokensOf(EventsOf(lrun[i].id)) =
        CASE lrun[i].pc = "idle" -> <<>>
          [] lrun[i].pc = "running" ->
               <<StartTokens(lrun[i].id,
                             Join(cmdArgs(ZfsCommand, lrun[i].arg), <<SP>>))>>
          [] lrun[i].pc = "returned" ->
               <<StartTokens(lrun[i].id,
                             Join(cmdArgs(ZfsCommand, lrun[i].arg), <<SP>>)),
                 FinishTokens(lrun[i].id)>>

---------------------------------------------------------------------------
(* The debug line of a failed invocation *)

\* C23: the error of a failed call of command.Run carries as its debug
\* line the path of the program, one space, and the arguments of the call
\* joined by single spaces.
C23_DebugIsCommandLine ==
    \A i \in LogCalls :
        (lrun[i].pc = "returned" /\ lrun[i].child # "exit0") =>
            lrun[i].err.Debug =
                LookPath(ZfsCommand) \o <<SP>> \o Join(lrun[i].arg, <<SP>>)

---------------------------------------------------------------------------
(* One row for every line of the output *)

\* the lines of a text: the pieces between its newlines, without the empty
\* piece that follows a final newline
LinesOf(text) ==
    LET pieces == Split(text, NL)
    IN IF pieces[Len(pieces)] = <<>> THEN SubSeq(pieces, 1, Len(pieces) - 1)
       ELSE pieces

\* C24: a call that returns a table returns one row for every line of the
\* captured stdout, in order, each row being the fields of its line; the
\* empty text gives the empty table.
C24_OneRowPerLine ==
    (xPc = "returned" /\ ~xResult.rows.isNil) =>
        xResult.rows.tab =
            [i \in 1..Len(LinesOf(xEmitted)) |-> Fields(LinesOf(xEmitted)[i])]

---------------------------------------------------------------------------
(* Rows that do not have the twelve columns *)

\* the rows zfs list prints for a dataset that exists, at depth 0
RowsListed(n) ==
    zfs(infoArgs(IF IsSnapshotName(n) THEN datasetSnapshot ELSE datasetFilesystem,
                 n, 0), zprops, zpass).res.rows.tab

\* C25: parseLine answers every row whose number of fields is not the
\* number of columns asked for with an error that is neither a crash nor
\* the error of a numeral, and never with an Info.
C25_RowsOfOtherLengthRejected ==
    \A n \in DOMAIN zprops :
        \A k \in 1..Len(RowsListed(n)) :
            Len(RowsListed(n)[k]) # Len(dsPropList) =>
                parseLine(RowsListed(n)[k]).err \notin {"none", "panic", "parse"}

---------------------------------------------------------------------------
(* A row that does not parse fails the whole listing *)

\* C26: a listing query whose tool output has a row that parseLine answers
\* with an error returns that error, no entity and no Info, also when rows
\* before the bad one parsed.
C26_NoPartialList ==
    (/\ last.op \in ListingOps
     /\ \E k \in 1..Len(ListingRows(last.op, last.name, zprops, zpass)) :
            parseLine(ListingRows(last.op, last.name, zprops, zpass)[k]).err = "parse")
    => (last.err = "parse" /\ last.names = <<>> /\ last.info = NoInfo)

\* Filesystems with the rows of c and of "c d": the first one parses, the
\* second one does not
C26_Witness ==
    /\ last.op = "Filesystems"
    /\ last.err = "parse" /\ last.names = <<>>
    /\ Len(ListingRows(last.op, last.name, zprops, zpass)) >= 2
    /\ parseLine(ListingRows(last.op, last.name, zprops, zpass)[1]).err = "none"
    /\ parseLine(ListingRows(last.op, last.name, zprops, zpass)[2]).err = "parse"

---------------------------------------------------------------------------
(* Decoding the text of a field *)

\* a numeral: digits and nothing else, at least one
IsNumeral(v) == v # <<>> /\ \A i \in 1..Len(v) : v[i] \in {DigitChars[d] : d \in 1..10}
\* the number a numeral of a few digits writes
RECURSIVE Pow10(_)
Pow10(n) == IF n = 0 THEN 1 ELSE 10 * Pow10(n - 1)
RECURSIVE NumberOf(_)
NumberOf(v) ==
    IF v = <<>> THEN 0
    ELSE DigitVal(v[1]) * Pow10(Len(v) - 1) + NumberOf(Tail(v))

\* C27: setUint stores 0 for the sentinel and the number for a numeral
\* that 64 bits hold, and for every other text, signed ones and numerals
\* above 2^64 - 1 included, returns an error and leaves the field as it
\* was; setString stores the empty text for the sentinel and the text
\* itself otherwise; neither touches the other field. The largest uint64
\* is accepted and its successor is not.
C27_FieldDecoding ==
    /\ last.op = "setUint" =>
           /\ last.info.Name = last.before.Name
           /\ IF last.val = S_dash
              THEN last.err = "none" /\ last.info.Used = 0
              ELSE IF IsNumeral(last.val) /\ Len(StripZeros(last.val)) < 20
              THEN last.err = "none" /\ last.info.Used = NumberOf(last.val)
              ELSE last.err = "parse" /\ last.info.Used = last.before.Used
    /\ last.op = "setString" =>
           /\ last.info.Used = last.before.Used
           /\ last.info.Name = (IF last.val = S_dash THEN <<>> ELSE last.val)
    /\ ParseUintErr(MaxUint64Digits) = "none"
    /\ ParseUintErr(SubSeq(MaxUint64Digits, 1, 19) \o <<"6">>) = "range"

\* a numeral above 2^64 - 1 was refused and the field kept the 42 it held
C27_Witness ==
    /\ last.op = "setUint"
    /\ IsNumeral(last.val) /\ Len(last.val) = 20
    /\ last.err = "parse"
    /\ last.before.Used = 42 /\ last.info.Used = 42

---------------------------------------------------------------------------
(* The command line of CreateFilesystem as a function of its inputs *)

\* C28: the command line CreateFilesystem has built is the one it builds
\* for this name and this property map on every call, whatever the order
\* in which the range over the map visits the entries.
C28_SameArgsOnEveryCall ==
    last.op = "CreateFilesystem" =>
        \A o \in IterOrders(CreateProps(last.inProps)) :
            CreateFilesystemArgs(last.name, last.inProps, o) = last.args

---------------------------------------------------------------------------
(* A listing that prints no row *)

\* C29: a query whose listing exits zero and prints no row returns an
\* error or an empty result; it never reads the first row of an empty
\* table.
C29_NoReadPastTheEnd ==
    (/\ last.op \in ListingOps
     /\ last.name = <<>> \/ last.name \in DOMAIN zprops
     /\ ListingRows(last.op, last.name, zprops, zpass) = <<>>)
    => last.err # "panic"

---------------------------------------------------------------------------
(* What CreateFilesystem does to the map of the caller *)

\* C30: after CreateFilesystem, failed or not, the caller's map holds the
\* entries it held before but the password, and the nil map is still nil;
\* with the nil map or the empty map the call fails only if the tool
\* refuses the name; a call given again the map of an earlier call finds no
\* password in it, passes no encryption options and gives the child no
\* input.
C30_OnlyThePasswordIsRemoved ==
    last.op = "CreateFilesystem" =>
        /\ last.object.isNil = last.before.object.isNil
        /\ DOMAIN last.object.m = DOMAIN last.before.object.m \ {S_password}
        /\ \A k \in DOMAIN last.object.m : last.object.m[k] = last.before.object.m[k]
        /\ (DOMAIN last.before.object.m = {} /\ ~last.before.existed)
               => last.err = "none"
        /\ last.before.again =>
               /\ S_password \notin DOMAIN last.inProps
               /\ last.stdin = NilStdin
               /\ \A i \in 1..Len(last.args) :
                      last.args[i] \notin {S_encryptionOn, S_keylocationPrompt,
                                           S_keyformatPassphrase}

\* a map with a password and one more entry was given to a call and then
\* again to a call that succeeded: it still holds the entry, and the
\* filesystem was created without a passphrase
C30_Witness ==
    /\ last.op = "CreateFilesystem"
    /\ last.before.again /\ last.before.carried
    /\ last.err = "none"
    /\ last.name \notin DOMAIN zpass
    /\ DOMAIN last.object.m = {<<"t", ":", "1">>}
    /\ last.args = <<S_create, S_o, <<"t", ":", "1", "=", "v">>, last.name>>

=============================================================================
